---- MODULE Spec2Model ----
(***************************************************************************)
(* A model of git-lfs-sempress: the clean/smudge filter (filter.py) with   *)
(* its settings (config.py) and ratio estimator (compression.py), the      *)
(* reconstruction-quality report with compare_files (quality.py) and the   *)
(* quality command (cli.py), the temporary files of SempressCompressor     *)
(* (compression.py) and of MultiFormatCompressor (formats.py), the add and *)
(* checkout round trip of one file, repeated calls on one QualityReport,   *)
(* the settings dictionaries as shared objects, and the track command      *)
(* (cli.py).                                                               *)
(*                                                                         *)
(* Byte strings are run-length encoded: a sequence of runs [k, n], n bytes *)
(* of kind k, adjacent runs of different kinds (one byte string has one    *)
(* representation, so equality of representations is equality of bytes).   *)
(* Floating-point settings and ratios are kept in tenths (1.5 is 15).      *)
(***************************************************************************)
EXTENDS Integers, Sequences, FiniteSets, TLC

\* ------------------------------------------------------------------ bounds

\* Longest input (stdin of the filter), in runs.
MaxRuns == 2
\* Longest byte string the external codec hands back, in runs.
MaxOutRuns == 1

\* ------------------------------------------------------- program constants

\* 1024 * 1024, the bytes of one "MB" of the thresholds.
MiB == 1048576
\* input_data[:100], the prefix smudge sniffs.
PrefixLen == 100
\* .count(',') > 5
CommaThreshold == 5

\* -------------------------------------------------------------- utilities

Min(a, b) == IF a < b THEN a ELSE b

SeqsUpTo(S, n) == UNION {[1..k -> S] : k \in 0..n}

\* ------------------------------------------------------------ byte strings

\* "comma" is 0x2C, "ascii" any other ASCII byte, "invalid" a byte that is
\* not valid UTF-8 anywhere (0xFF).
Kinds == {"comma", "ascii", "invalid"}

Canonical(d) ==
    /\ \A i \in 1..Len(d) : d[i].n > 0
    /\ \A i \in 1..(Len(d) - 1) : d[i].k # d[i + 1].k

\* len(data)
RECURSIVE ByteLen(_)
ByteLen(d) == IF d = <<>> THEN 0 ELSE Head(d).n + ByteLen(Tail(d))

\* data[:m]
RECURSIVE Slice(_, _)
Slice(d, m) ==
    IF d = <<>> \/ m <= 0 THEN <<>>
    ELSE IF Head(d).n >= m THEN <<[k |-> Head(d).k, n |-> m]>>
    ELSE <<Head(d)>> \o Slice(Tail(d), m - Head(d).n)

\* bytes.decode('utf-8', errors='ignore'): the undecodable bytes are dropped,
\* every ASCII byte decodes to its character.
DecodeIgnore(d) == SelectSeq(d, LAMBDA r : r.k # "invalid")

\* str.count(c) for a one-character c
RECURSIVE CountKind(_, _)
CountKind(s, c) ==
    IF s = <<>> THEN 0
    ELSE (IF Head(s).k = c THEN Head(s).n ELSE 0) + CountKind(Tail(s), c)

\* The i-th byte (1-based) of d.
RECURSIVE ByteAt(_, _)
ByteAt(d, i) == IF i <= Head(d).n THEN Head(d).k ELSE ByteAt(Tail(d), i - Head(d).n)

InLens == {1, CommaThreshold + 1, PrefixLen - CommaThreshold, MiB - 1}
Inputs == {d \in SeqsUpTo([k : Kinds, n : InLens], MaxRuns) : Canonical(d)}

OutLens == {CommaThreshold + 1, MiB \div 2}
CodecOutputs == {d \in SeqsUpTo([k : Kinds, n : OutLens], MaxOutRuns) : Canonical(d)}

\* ---------------------------------------------------------------- settings

\* A YAML scalar of the thresholds section: a number (in tenths) or a value
\* that does not compare with a float (a string, null).
Num(v) == [t |-> "num", v |-> v]
NotANumber == [t |-> "str", v |-> 0]

\* dict.get(key, default)
Get(d, key, default) == IF key \in DOMAIN d THEN d[key] ELSE default

EmptyDict == [key \in {} |-> NotANumber]

\* A YAML value where a mapping is expected that is none (a scalar, a list,
\* null): it has no get and no update.
NotAMapping == [scalar |-> NotANumber]
IsMapping(d) == "scalar" \notin DOMAIN d

\* A YAML boolean, and a YAML list of n column names.
Flag(b) == [t |-> "bool", v |-> IF b THEN 1 ELSE 0]
Cols(n) == [t |-> "list", v |-> n]

\* The two sections of DEFAULT_CONFIG that the program reads (k 64 is 640
\* tenths).
Sections == {"compression", "thresholds"}

DEFAULT_CONFIG ==
    [compression |->
        [k |-> Num(640), uncertainty_threshold |-> Num(2), auto_lock |-> Flag(TRUE),
         lock_cols |-> Cols(0), residual_cols |-> Cols(0)],
     thresholds |-> [min_size_mb |-> Num(10), min_compression_ratio |-> Num(15)]]

\* The thresholds sections of the .sempress.yml files considered.
SizeSettings == {Num(0), Num(10), NotANumber}
RatioSettings == {Num(20), Num(30), NotANumber}
UserThresholds ==
    {EmptyDict}
    \cup {[key \in {"min_size_mb"} |-> s] : s \in SizeSettings}
    \cup {[key \in {"min_compression_ratio"} |-> r] : r \in RatioSettings}
    \cup {[min_size_mb |-> s, min_compression_ratio |-> r] :
            s \in SizeSettings, r \in RatioSettings}

\* What yaml.safe_load(f) or {} yields for the file: a mapping that has a
\* thresholds section (a mapping itself, or not) or has none.
EmptyDoc == [section \in {} |-> EmptyDict]
UserDocs ==
    {EmptyDoc} \cup {[thresholds |-> th] : th \in UserThresholds \cup {NotAMapping}}

\* What is on disk: no file, a file open cannot read, a file yaml cannot
\* parse, a document that is a mapping, a document that is a scalar or a list
\* of scalars, or a document that is a list of [key, value] pairs.
UserFiles ==
    {[state |-> "missing", doc |-> EmptyDoc],
     [state |-> "unreadable", doc |-> EmptyDoc],
     [state |-> "unparsable", doc |-> EmptyDoc],
     [state |-> "scalar_document", doc |-> EmptyDoc],
     [state |-> "pairs_document", doc |-> [thresholds |-> NotAMapping]]}
    \cup {[state |-> "document", doc |-> d] : d \in UserDocs}

\* Config._load_config: the defaults without a file and after any exception
\* (of open, of yaml, of dict.update on a document that is no mapping and no
\* list of pairs, of the nested update on a section that is no mapping);
\* otherwise config.update(user_config) puts the user's own sections in
\* place of the default ones (the nested update then merges a section into
\* itself, and is skipped for a list of pairs, which holds no key).
load_config(file) ==
    IF file.state \in {"missing", "unreadable", "unparsable", "scalar_document"}
    THEN DEFAULT_CONFIG
    ELSE IF file.state = "pairs_document"
    THEN [s \in Sections |-> Get(file.doc, s, DEFAULT_CONFIG[s])]
    ELSE IF \E s \in Sections \cap DOMAIN file.doc : ~IsMapping(file.doc[s])
    THEN DEFAULT_CONFIG
    ELSE [s \in Sections |-> Get(file.doc, s, DEFAULT_CONFIG[s])]

\* Config.get_thresholds
get_thresholds(cfg) == cfg.thresholds

\* Config.get_compression_config
get_compression_config(cfg) == cfg.compression

\* SempressCompressor.estimate_compression_ratio, in tenths.
estimate_compression_ratio_dip(csv_data) ==
    IF ByteLen(csv_data) < MiB THEN 25
    ELSE IF ByteLen(csv_data) < 10 * MiB THEN 40
    ELSE IF ByteLen(csv_data) < 100 * MiB THEN 35
    ELSE 70

estimate_compression_ratio(csv_data) ==
    IF ByteLen(csv_data) < MiB THEN 25
    ELSE IF ByteLen(csv_data) < 10 * MiB THEN 40
    ELSE IF ByteLen(csv_data) < 100 * MiB THEN 55
    ELSE 70

\* Config.should_compress. "raise" is the AttributeError of thresholds.get on
\* a value that is no mapping or the TypeError of comparing a float with a
\* value that is not a number; "too_small" and "ratio_low" both return
\* False, "ok" returns True.
should_compress_strict(cfg, file_size_bytes, estimated_ratio) ==
    LET thresholds == get_thresholds(cfg)
        min_size_mb == Get(thresholds, "min_size_mb", Num(10))
        min_ratio == Get(thresholds, "min_compression_ratio", Num(15))
    IN  IF ~IsMapping(thresholds) THEN "raise"
        ELSE IF min_size_mb.t # "num" THEN "raise"
        ELSE IF file_size_bytes * 10 <= min_size_mb.v * MiB THEN "too_small"
        ELSE IF min_ratio.t # "num" THEN "raise"
        ELSE IF estimated_ratio < min_ratio.v THEN "ratio_low"
        ELSE "ok"

\* should_compress without its second check.
should_compress_ignoring_ratio(cfg, file_size_bytes, estimated_ratio) ==
    LET thresholds == get_thresholds(cfg)
        min_size_mb == Get(thresholds, "min_size_mb", Num(10))
    IN  IF ~IsMapping(thresholds) THEN "raise"
        ELSE IF min_size_mb.t # "num" THEN "raise"
        ELSE IF file_size_bytes * 10 < min_size_mb.v * MiB THEN "too_small"
        ELSE "ok"

should_compress(cfg, file_size_bytes, estimated_ratio) ==
    LET thresholds == get_thresholds(cfg)
        min_size_mb == Get(thresholds, "min_size_mb", Num(10))
        min_ratio == Get(thresholds, "min_compression_ratio", Num(15))
    IN  IF ~IsMapping(thresholds) THEN "raise"
        ELSE IF min_size_mb.t # "num" THEN "raise"
        ELSE IF file_size_bytes * 10 < min_size_mb.v * MiB THEN "too_small"
        ELSE IF min_ratio.t # "num" THEN "raise"
        ELSE IF estimated_ratio < min_ratio.v THEN "ratio_low"
        ELSE "ok"

\* ------------------------------------------------------------ the filter

VARIABLES
    configFile,    \* the .sempress.yml that Config found, or found missing
    config,        \* SempressFilter.config.config, the resolved settings
    input,         \* the bytes on the filter's stdin
    op,            \* the filter invoked: "none", "clean", "smudge"
    pc,            \* "idle", "encoding", "decoding", "done"
    output,        \* the bytes clean/smudge returned
    decision,      \* why the handler took its path
    codec,         \* the external codec's last call and what came of it
    encodeCalls,   \* calls of SempressCompressor.compress
    decodeCalls,   \* calls of SempressCompressor.decompress
    propagated     \* an exception left clean/smudge

filterVars ==
    <<configFile, config, input, op, pc, output, decision, codec, encodeCalls,
      decodeCalls, propagated>>

VARIABLES
    original,       \* QualityReport.original
    reconstructed,  \* QualityReport.reconstructed
    issues,         \* QualityReport.issues
    warnings,       \* QualityReport.warnings
    metrics,        \* QualityReport.metrics
    qpc,            \* where analyze() is
    colIdx,         \* the column the loop of analyze() is at
    report          \* what analyze() returned

qualityVars ==
    <<original, reconstructed, issues, warnings, metrics, qpc, colIdx, report>>

VARIABLES
    originalFile,       \* what pd.read_csv(original_path) finds
    reconstructedFile,  \* what pd.read_csv(reconstructed_path) finds
    cmp,                \* where compare_files and the quality command are
    failed,             \* the step of compare_files that raised, or "none"
    result,             \* what compare_files returned
    escaped,            \* an exception left compare_files
    exitCode            \* the exit status of the quality command, -1 before

compareVars ==
    <<originalFile, reconstructedFile, cmp, failed, result, escaped, exitCode>>

VARIABLES
    method,    \* the SempressCompressor method called: "compress", "decompress"
    payload,   \* the bytes it was called with
    files,     \* the temporary paths that exist
    created,   \* the temporary paths the method made or named
    tpc,       \* where the method is
    outcome    \* what the method handed its caller

compressorVars == <<method, payload, files, created, tpc, outcome>>

VARIABLES
    csvA,       \* the bytes of one call of estimate_compression_ratio
    csvB,       \* the bytes of another call
    estimateA,  \* what the call on csvA returned, in tenths; -1 before
    estimateB   \* what the call on csvB returned, in tenths; -1 before

estimateVars == <<csvA, csvB, estimateA, estimateB>>

VARIABLES
    stage,     \* "add" while clean runs, "checkout" once smudge has its output
    staged,    \* the bytes clean was given
    accepted   \* clean returned the codec's blob instead of the bytes it was given

roundTripVars == <<stage, staged, accepted>>

VARIABLES
    calls,        \* analyze() and print_report() calls made on the QualityReport
    firstReport   \* what the first analyze() returned

repeatVars == <<calls, firstReport>>

VARIABLES
    heap,      \* the dicts of the process: DEFAULT_CONFIG, its sections, the loaded ones
    resolved,  \* the Config objects made so far, each with its values when made
    lastCall   \* the last call that read a Config, and what it got

settingsVars == <<heap, resolved, lastCall>>

VARIABLES
    fileSuffix   \* Path(filename).suffix of the file MultiFormatCompressor is given

multiVars == <<fileSuffix>>

VARIABLES
    gitattributes,  \* the .gitattributes of the working directory
    trackCalls,     \* the track commands run so far, each with its outcome
    cliExit         \* the exit status of the last track command, -1 before

trackVars == <<gitattributes, trackCalls, cliExit>>

\* The variables of the filter, the report, the comparison and the compressor.
coreVars == <<filterVars, qualityVars, compareVars, compressorVars>>

\* The variables of the scenarios that follow the compressor's.
laterVars ==
    <<estimateVars, roundTripVars, repeatVars, settingsVars, multiVars, trackVars>>

NoCall == [call |-> "none", result |-> "none", data |-> <<>>]

FilterInit ==
    /\ configFile \in UserFiles
    /\ config = load_config(configFile)
    /\ input \in Inputs
    /\ op = "none"
    /\ pc = "idle"
    /\ output = <<>>
    /\ decision = "none"
    /\ codec = NoCall
    /\ encodeCalls = 0
    /\ decodeCalls = 0
    /\ propagated = FALSE

\* What a handler hands its caller: a returned value, or an exception.
Return(v) == [raised |-> FALSE, value |-> v]
Raise == [raised |-> TRUE, value |-> <<>>]

\* clean, the outer handler (except Exception: return b'').
clean_on_error(csv_data) == Return(<<>>)

\* clean, the inner handler (except Exception: return csv_data).
clean_on_codec_error_reraise(csv_data) == Raise

clean_on_codec_error(csv_data) == Return(csv_data)

\* clean after compress returned: the achieved ratio against the threshold.
\* len(csv_data) / 0 raises ZeroDivisionError and a threshold that is not a
\* number TypeError, both inside the inner try.
clean_verify_unguarded(cfg, csv_data, compressed_data) ==
    LET min_ratio == Get(get_thresholds(cfg), "min_compression_ratio", Num(15))
    IN  IF ~IsMapping(get_thresholds(cfg)) THEN clean_on_codec_error(csv_data)
        ELSE IF min_ratio.t # "num" THEN clean_on_codec_error(csv_data)
        ELSE IF ByteLen(csv_data) * 10 < min_ratio.v * ByteLen(compressed_data)
        THEN Return(csv_data)
        ELSE Return(compressed_data)

clean_verify(cfg, csv_data, compressed_data) ==
    LET min_ratio == Get(get_thresholds(cfg), "min_compression_ratio", Num(15))
    IN  IF ByteLen(compressed_data) = 0 THEN clean_on_codec_error(csv_data)
        ELSE IF ~IsMapping(get_thresholds(cfg)) THEN clean_on_codec_error(csv_data)
        ELSE IF min_ratio.t # "num" THEN clean_on_codec_error(csv_data)
        ELSE IF ByteLen(csv_data) * 10 < min_ratio.v * ByteLen(compressed_data)
        THEN Return(csv_data)
        ELSE Return(compressed_data)

\* clean up to the codec: read, the empty check, the estimate, should_compress.
CleanGate ==
    /\ pc = "idle"
    /\ op' = "clean"
    /\ LET csv_data == input
           estimated_ratio == estimate_compression_ratio(csv_data)
           go == should_compress(config, ByteLen(csv_data), estimated_ratio)
       IN  IF csv_data = <<>>
           THEN /\ decision' = "empty"
                /\ output' = <<>>
                /\ propagated' = FALSE
                /\ pc' = "done"
           ELSE IF go = "raise"
           THEN /\ decision' = "error"
                /\ output' = clean_on_error(csv_data).value
                /\ propagated' = clean_on_error(csv_data).raised
                /\ pc' = "done"
           ELSE IF go = "ok"
           THEN /\ decision' = "compress"
                /\ UNCHANGED <<output, propagated>>
                /\ pc' = "encoding"
           ELSE /\ decision' = go
                /\ output' = csv_data
                /\ propagated' = FALSE
                /\ pc' = "done"
    /\ UNCHANGED <<configFile, config, input, codec, encodeCalls, decodeCalls>>
    /\ UNCHANGED <<qualityVars, compareVars, compressorVars, laterVars>>

\* self.compressor.compress(csv_data) returns compressed_data.
CleanEncodeReturns ==
    /\ pc = "encoding"
    /\ op = "clean"
    /\ \E compressed_data \in CodecOutputs :
        /\ codec' = [call |-> "encode", result |-> "return", data |-> compressed_data]
        /\ output' = clean_verify(config, input, compressed_data).value
        /\ propagated' = clean_verify(config, input, compressed_data).raised
    /\ encodeCalls' = encodeCalls + 1
    /\ pc' = "done"
    /\ UNCHANGED <<configFile, config, input, op, decision, decodeCalls>>
    /\ UNCHANGED <<qualityVars, compareVars, compressorVars, laterVars>>

\* self.compressor.compress(csv_data) raises.
CleanEncodeRaises ==
    /\ pc = "encoding"
    /\ op = "clean"
    /\ codec' = [call |-> "encode", result |-> "raise", data |-> <<>>]
    /\ output' = clean_on_codec_error(input).value
    /\ propagated' = clean_on_codec_error(input).raised
    /\ encodeCalls' = encodeCalls + 1
    /\ pc' = "done"
    /\ UNCHANGED <<configFile, config, input, op, decision, decodeCalls>>
    /\ UNCHANGED <<qualityVars, compareVars, compressorVars, laterVars>>

\* smudge's sniff: more than 5 commas in the first 100 bytes, decoded.
looks_like_csv_inclusive(input_data) ==
    CountKind(DecodeIgnore(Slice(input_data, PrefixLen)), "comma") >= CommaThreshold

looks_like_csv(input_data) ==
    CountKind(DecodeIgnore(Slice(input_data, PrefixLen)), "comma") > CommaThreshold

\* smudge, the inner handler (except Exception: return input_data).
smudge_on_codec_error_reraise(input_data) == Raise

smudge_on_codec_error(input_data) == Return(input_data)

\* smudge up to the codec: read, the empty check, the sniff.
SmudgeSniff ==
    /\ pc = "idle"
    /\ op' = "smudge"
    /\ LET input_data == input
       IN  IF input_data = <<>>
           THEN /\ decision' = "empty"
                /\ output' = <<>>
                /\ pc' = "done"
           ELSE IF looks_like_csv(input_data)
           THEN /\ decision' = "plain"
                /\ output' = input_data
                /\ pc' = "done"
           ELSE /\ decision' = "decompress"
                /\ output' = output
                /\ pc' = "decoding"
    /\ UNCHANGED <<configFile, config, input, codec, encodeCalls, decodeCalls, propagated>>
    /\ UNCHANGED <<qualityVars, compareVars, compressorVars, laterVars>>

\* self.compressor.decompress(input_data) returns csv_data.
SmudgeDecodeReturns ==
    /\ pc = "decoding"
    /\ op = "smudge"
    /\ \E csv_data \in CodecOutputs :
        /\ codec' = [call |-> "decode", result |-> "return", data |-> csv_data]
        /\ output' = csv_data
    /\ decodeCalls' = decodeCalls + 1
    /\ pc' = "done"
    /\ UNCHANGED <<configFile, config, input, op, decision, encodeCalls, propagated>>
    /\ UNCHANGED <<qualityVars, compareVars, compressorVars, laterVars>>

\* self.compressor.decompress(input_data) raises.
SmudgeDecodeRaises ==
    /\ pc = "decoding"
    /\ op = "smudge"
    /\ codec' = [call |-> "decode", result |-> "raise", data |-> <<>>]
    /\ output' = smudge_on_codec_error(input).value
    /\ propagated' = smudge_on_codec_error(input).raised
    /\ decodeCalls' = decodeCalls + 1
    /\ pc' = "done"
    /\ UNCHANGED <<configFile, config, input, op, decision, encodeCalls>>
    /\ UNCHANGED <<qualityVars, compareVars, compressorVars, laterVars>>

FilterNext ==
    \/ CleanGate
    \/ CleanEncodeReturns
    \/ CleanEncodeRaises
    \/ SmudgeSniff
    \/ SmudgeDecodeReturns
    \/ SmudgeDecodeRaises

\* ----------------------------------------------------- the quality report

\* Rows and columns of the largest table compared.
MaxRows == 2
MaxCols == 2

\* Column names; the last one is the name a renamed or added column gets.
ColNames == <<"a", "b", "c", "d">>
FreshName == ColNames[Len(ColNames)]

\* A cell as pd.read_csv yields it: a number ("num", v its value in
\* thousandths), a missing value ("nan", NaN), a string ("str", v naming the
\* string) or, in a column that holds some string, the text of a number
\* ("numstr").
StrCell(v) == [t |-> "str", v |-> v]
NumCell(v) == [t |-> "num", v |-> v]
NaNCell == [t |-> "nan", v |-> 0]

\* pd.read_csv's inference for one column: object when a cell is no number
\* (every number is then kept as its text) or when there is no row at all,
\* a numeric dtype otherwise.
IsObject(cells) ==
    \/ Len(cells) = 0
    \/ \E i \in 1..Len(cells) : cells[i].t \in {"str", "numstr"}

read_csv_column(cells) ==
    IF IsObject(cells)
    THEN [i \in 1..Len(cells) |->
            IF cells[i].t = "num" THEN [t |-> "numstr", v |-> cells[i].v]
            ELSE cells[i]]
    ELSE cells

\* A DataFrame: the column names in order, the cells of each column.
Frame(cols, rows, data) == [cols |-> cols, rows |-> rows, data |-> data]

\* DataFrame.shape
shape(df) == <<df.rows, Len(df.cols)>>

\* set(df.columns)
ColumnSet(df) == {df.cols[i] : i \in 1..Len(df.cols)}

\* The columns an original table is made of: one value throughout, or one
\* missing cell, in the first or the last row, among equal values.
OriginalColumns(rows) ==
    IF rows = 0 THEN {<<>>}
    ELSE {[i \in 1..rows |-> c] :
            c \in {StrCell(1), NumCell(0), NumCell(1000), NumCell(10000)}}
         \cup {read_csv_column([i \in 1..rows |-> IF i = p THEN NaNCell ELSE c]) :
                 p \in {1, rows}, c \in {StrCell(1), NumCell(1000)}}

Originals ==
    UNION {
        {Frame(SubSeq(ColNames, 1, nc), nr, d) :
            d \in [{ColNames[i] : i \in 1..nc} -> OriginalColumns(nr)]} :
        nr \in 0..MaxRows, nc \in 1..MaxCols}

\* What a reconstruction may put in place of a cell.
CellValues ==
    {StrCell(1), StrCell(2), NumCell(0), NumCell(1000), NumCell(1001),
     NumCell(1010), NumCell(10001), NaNCell}

\* The raw value of a cell, before the column's dtype is inferred.
RawCell(c) == IF c.t = "numstr" THEN NumCell(c.v) ELSE c

\* The reconstructions of df considered: df itself; df with one cell of the
\* first or the last row changed; df with the first cell of every column
\* changed; df without its
\* last row or column, with one more row or column; df with its first column
\* renamed.
Reconstructions(df) ==
    LET names == ColumnSet(df)
        nc == Len(df.cols)
        last == df.cols[nc]
    IN  {df}
        \cup {Frame(df.cols, df.rows,
                    [df.data EXCEPT ![col] =
                        read_csv_column(
                            [i \in 1..df.rows |->
                                IF i = row THEN v ELSE RawCell(df.data[col][i])])]) :
                col \in names, row \in {1, df.rows} \cap 1..df.rows,
                v \in CellValues}
        \cup (IF df.rows > 0
              THEN {Frame(df.cols, df.rows,
                          [col \in names |->
                              read_csv_column(
                                  [i \in 1..df.rows |->
                                      IF i = 1 THEN v ELSE RawCell(df.data[col][i])])]) :
                      v \in CellValues}
              ELSE {})
        \cup (IF df.rows > 0
              THEN {Frame(df.cols, df.rows - 1,
                          [col \in names |->
                              read_csv_column(
                                  [i \in 1..(df.rows - 1) |-> RawCell(df.data[col][i])])])}
              ELSE {})
        \cup {Frame(df.cols, df.rows + 1,
                    [col \in names |->
                        read_csv_column(
                            [i \in 1..(df.rows + 1) |->
                                IF i <= df.rows THEN RawCell(df.data[col][i])
                                ELSE NaNCell])])}
        \cup (IF nc > 1
              THEN {Frame(SubSeq(df.cols, 1, nc - 1), df.rows,
                          [col \in names \ {last} |-> df.data[col]])}
              ELSE {})
        \cup {Frame(Append(df.cols, FreshName), df.rows,
                    [col \in names \cup {FreshName} |->
                        IF col = FreshName THEN df.data[last] ELSE df.data[col]])}
        \cup {Frame([i \in 1..nc |-> IF i = 1 THEN FreshName ELSE df.cols[i]],
                    df.rows,
                    [col \in (names \ {df.cols[1]}) \cup {FreshName} |->
                        IF col = FreshName THEN df.data[df.cols[1]] ELSE df.data[col]])}

\* A float of a metric: NaN, or the exact quotient n / d (d > 0).
Rat(n, d) == [nan |-> FALSE, n |-> n, d |-> d]
NaN == [nan |-> TRUE, n |-> 0, d |-> 1]

\* x < a / b as floats compare: false for NaN.
Lt(x, a, b) == ~x.nan /\ x.n * b < a * x.d

Abs(x) == IF x < 0 THEN -x ELSE x

RECURSIVE SumOver(_, _)
SumOver(f, n) == IF n = 0 THEN 0 ELSE f[n] + SumOver(f, n - 1)

RECURSIVE MaxOver(_, _)
MaxOver(f, n) ==
    IF n = 1 THEN f[1]
    ELSE IF f[n] > MaxOver(f, n - 1) THEN f[n] ELSE MaxOver(f, n - 1)

\* The element-wise orig == recon of two Series: NaN equals nothing, a text
\* equals no number.
CellEq(x, y) == x.t # "nan" /\ y.t # "nan" /\ x = y

\* (orig == recon).sum()
Matches(orig, recon) == Cardinality({i \in 1..Len(orig) : CellEq(orig[i], recon[i])})

\* values.astype(float) raises ValueError on a cell that is no number's text.
AstypeFloatRaises(cells) == \E i \in 1..Len(cells) : cells[i].t = "str"

NoFinding == <<>>
NoDetail == [none |-> TRUE]

\* (orig != recon).idxmax(): the first row (counted from 1) whose cells differ.
first_diff_from_the_end(orig, recon) ==
    CHOOSE i \in 1..Len(orig) :
        /\ ~CellEq(orig[i], recon[i])
        /\ \A j \in (i + 1)..Len(orig) : CellEq(orig[j], recon[j])

first_diff(orig, recon) ==
    CHOOSE i \in 1..Len(orig) :
        /\ ~CellEq(orig[i], recon[i])
        /\ \A j \in 1..(i - 1) : CellEq(orig[j], recon[j])

\* _check_column for a string column: the Issue (if any) and the metrics.
check_string_column(col, orig, recon) ==
    LET matches == Matches(orig, recon)
        total == Len(orig)
        match_pct == IF total = 0 THEN NaN ELSE Rat(matches * 100, total)
        diff_idx == first_diff(orig, recon)
    IN  [raised |-> FALSE,
         issues |->
            IF Lt(match_pct, 100, 1)
            THEN <<[severity |-> "ERROR", type |-> "string_mismatch", column |-> col,
                    detail |-> [mismatches |-> total - matches,
                                match_pct |-> match_pct,
                                example |-> [row |-> diff_idx - 1,
                                             original |-> orig[diff_idx],
                                             reconstructed |-> recon[diff_idx]]]]>>
            ELSE NoFinding,
         warnings |-> NoFinding,
         metrics |-> [type |-> "string", match_pct |-> match_pct]]

\* x == 100, for a float of the report.
IsHundred(x) == ~x.nan /\ x.n = 100 * x.d
IsZero(x) == ~x.nan /\ x.n = 0

\* _check_column, the thresholds on a numeric column: which finding its
\* exact_pct and rel_error lead to. A NaN rel_error is below no threshold.
numeric_tier_inclusive(exact, rel_error) ==
    IF exact THEN "exact"
    ELSE IF Lt(rel_error, 1, 100) THEN "excellent"
    ELSE IF ~rel_error.nan /\ rel_error.n * 10 <= rel_error.d THEN "minor_error"
    ELSE IF Lt(rel_error, 1, 1) THEN "moderate_error"
    ELSE "high_error"

numeric_tier_without_excellent(exact, rel_error) ==
    IF exact THEN "exact"
    ELSE IF Lt(rel_error, 1, 10) THEN "minor_error"
    ELSE IF Lt(rel_error, 1, 1) THEN "moderate_error"
    ELSE "high_error"

numeric_tier(exact, rel_error) ==
    IF exact THEN "exact"
    ELSE IF Lt(rel_error, 1, 100) THEN "excellent"
    ELSE IF Lt(rel_error, 1, 10) THEN "minor_error"
    ELSE IF Lt(rel_error, 1, 1) THEN "moderate_error"
    ELSE "high_error"

RECURSIVE GCD(_, _)
GCD(a, b) == IF b = 0 THEN a ELSE GCD(b, a % b)

\* (x / y) * 100 for floats that are no NaN, y # 0; the common factor of the
\* two denominators cancelled.
PercentOf(x, y) ==
    LET g == GCD(x.d, y.d)
    IN  Rat(x.n * 100 * (y.d \div g), (x.d \div g) * y.n)

\* rel_error of _check_column with the else branch left out: mae / 0 * 100.
relative_error_undefined_at_zero(mae, mean_val) ==
    IF mae.nan \/ mean_val.nan \/ mean_val.n = 0 THEN NaN
    ELSE PercentOf(mae, mean_val)

\* rel_error of _check_column: (mae / mean_val) * 100 if mean_val > 0 else 0
\* (a NaN mean_val is not > 0).
relative_error(mae, mean_val) ==
    IF ~mean_val.nan /\ mean_val.n > 0
    THEN (IF mae.nan THEN NaN ELSE PercentOf(mae, mean_val))
    ELSE Rat(0, 1)

\* _check_column for a numeric column. The metrics are exact quotients; rmse
\* is kept squared (the mean of the squared errors).
check_numeric_column(col, orig, recon) ==
    LET n == Len(orig)
        anyNaN == \E i \in 1..n : orig[i].t = "nan" \/ recon[i].t = "nan"
        origNaN == \E i \in 1..n : orig[i].t = "nan"
        err == [i \in 1..n |-> Abs(orig[i].v - recon[i].v)]
        mae == IF anyNaN THEN NaN ELSE Rat(SumOver(err, n), n)
        rmse == IF anyNaN THEN NaN
                ELSE Rat(SumOver([i \in 1..n |-> err[i] * err[i]], n), n)
        max_error == IF anyNaN THEN NaN ELSE Rat(MaxOver(err, n), 1)
        sum_abs == SumOver([i \in 1..n |-> Abs(orig[i].v)], n)
        mean_val == IF origNaN THEN NaN ELSE Rat(sum_abs, n)
        rel_error == relative_error(mae, mean_val)
        exact_matches == Cardinality({i \in 1..n :
                            /\ orig[i].t # "nan"
                            /\ recon[i].t # "nan"
                            /\ orig[i].v = recon[i].v})
        exact_pct == Rat(exact_matches * 100, n)
        detail == [relative_error |-> rel_error, mae |-> mae, max_error |-> max_error]
        tier == numeric_tier(IsHundred(exact_pct), rel_error)
    IN  IF AstypeFloatRaises(recon)
        THEN [raised |-> TRUE, issues |-> NoFinding, warnings |-> NoFinding,
              metrics |-> NoDetail]
        ELSE [raised |-> FALSE,
              issues |->
                 IF tier = "high_error"
                 THEN <<[severity |-> "ERROR", type |-> "high_error", column |-> col,
                         detail |-> detail]>>
                 ELSE NoFinding,
              warnings |->
                 IF tier = "minor_error"
                 THEN <<[severity |-> "INFO", type |-> "minor_error", column |-> col,
                         detail |-> detail]>>
                 ELSE IF tier = "moderate_error"
                 THEN <<[severity |-> "WARNING", type |-> "moderate_error",
                         column |-> col, detail |-> detail]>>
                 ELSE NoFinding,
              metrics |-> [type |-> "numeric", mae |-> mae, rmse |-> rmse,
                           max_error |-> max_error, relative_error |-> rel_error,
                           exact_match_pct |-> exact_pct]]

\* QualityReport._check_column
check_column(col, orig, recon) ==
    IF IsObject(orig) THEN check_string_column(col, orig, recon)
    ELSE check_numeric_column(col, orig, recon)

\* _calculate_similarity, one column's share of exact_matches: a numeric
\* cell matches when |orig - recon| < 1e-10, less than one thousandth.
SimilarityMatches(orig, recon) ==
    IF IsObject(orig) THEN Matches(orig, recon)
    ELSE Cardinality({i \in 1..Len(orig) :
            /\ orig[i].t # "nan"
            /\ recon[i].t # "nan"
            /\ orig[i].v = recon[i].v})

\* _calculate_similarity over the first column alone.
calculate_similarity_first_column(orig_df, recon_df) ==
    LET total_cells == orig_df.rows
        exact_matches == SimilarityMatches(orig_df.data[orig_df.cols[1]],
                                           recon_df.data[orig_df.cols[1]])
    IN  IF total_cells = 0 THEN NaN ELSE Rat(exact_matches * 100, total_cells)

\* _calculate_similarity: exact_matches is a numpy integer once a column was
\* added to it, so a table without cells gives NaN.
calculate_similarity(orig_df, recon_df) ==
    LET total_cells == orig_df.rows * Len(orig_df.cols)
        per_col == [i \in 1..Len(orig_df.cols) |->
                       SimilarityMatches(orig_df.data[orig_df.cols[i]],
                                         recon_df.data[orig_df.cols[i]])]
        exact_matches == SumOver(per_col, Len(orig_df.cols))
    IN  IF total_cells = 0 THEN NaN ELSE Rat(exact_matches * 100, total_cells)

NoMetrics == [key \in {} |-> NoDetail]
NoReport == [none |-> TRUE]

QualityInit ==
    /\ original \in Originals
    /\ reconstructed \in Reconstructions(original)
    /\ issues = <<>>
    /\ warnings = <<>>
    /\ metrics = NoMetrics
    /\ qpc = "start"
    /\ colIdx = 0
    /\ report = NoReport

\* The CRITICAL Issue of the shape check.
shape_issue(orig_df, recon_df) ==
    [severity |-> "CRITICAL", type |-> "shape_mismatch", column |-> "",
     detail |-> [original |-> shape(orig_df), reconstructed |-> shape(recon_df)]]

\* The CRITICAL Issue of the column check.
column_issue_swapped(orig_cols, recon_cols) ==
    [severity |-> "CRITICAL", type |-> "column_mismatch", column |-> "",
     detail |-> [missing |-> recon_cols \ orig_cols, extra |-> orig_cols \ recon_cols]]

column_issue(orig_cols, recon_cols) ==
    [severity |-> "CRITICAL", type |-> "column_mismatch", column |-> "",
     detail |-> [missing |-> orig_cols \ recon_cols, extra |-> recon_cols \ orig_cols]]

\* analyze, the shape check: the Issue and the return on a mismatch.
analyze_shape_check_falls_through(orig_df, recon_df, the_issues) ==
    IF shape(orig_df) # shape(recon_df)
    THEN [issues |-> Append(the_issues, shape_issue(orig_df, recon_df)),
          next |-> "column_check"]
    ELSE [issues |-> the_issues, next |-> "column_check"]

analyze_shape_check(orig_df, recon_df, the_issues) ==
    IF shape(orig_df) # shape(recon_df)
    THEN [issues |-> Append(the_issues, shape_issue(orig_df, recon_df)),
          next |-> "build_report"]
    ELSE [issues |-> the_issues, next |-> "column_check"]

\* analyze, the column check: the Issue and the return on a mismatch.
analyze_column_check(orig_df, recon_df, the_issues) ==
    LET orig_cols == ColumnSet(orig_df)
        recon_cols == ColumnSet(recon_df)
    IN  IF orig_cols # recon_cols
        THEN [issues |-> Append(the_issues, column_issue(orig_cols, recon_cols)),
              next |-> "build_report"]
        ELSE [issues |-> the_issues, next |-> "check_columns"]

\* QualityReport._build_report
build_report(the_issues, the_warnings, the_metrics) ==
    [similarity_score |-> Get(the_metrics, "overall_similarity", Rat(0, 1)),
     issues |-> the_issues,
     warnings |-> the_warnings,
     column_metrics |-> the_metrics,
     has_critical_issues |->
        \E i \in 1..Len(the_issues) : the_issues[i].severity = "CRITICAL",
     has_errors |-> \E i \in 1..Len(the_issues) : the_issues[i].severity = "ERROR",
     has_warnings |-> Len(the_warnings) > 0]

\* analyze, the loop over self.original.columns from the i-th column on: the
\* findings and metrics after it, or that a _check_column raised.
RECURSIVE check_columns(_, _, _, _)
check_columns(orig_df, recon_df, i, acc) ==
    IF i > Len(orig_df.cols) THEN acc
    ELSE LET col == orig_df.cols[i]
             res == check_column(col, orig_df.data[col], recon_df.data[col])
         IN  IF res.raised THEN [acc EXCEPT !.raised = TRUE]
             ELSE check_columns(orig_df, recon_df, i + 1,
                    [raised |-> FALSE,
                     issues |-> acc.issues \o res.issues,
                     warnings |-> acc.warnings \o res.warnings,
                     metrics |-> [key \in DOMAIN acc.metrics \cup {col} |->
                                     IF key = col THEN res.metrics
                                     ELSE acc.metrics[key]]])

\* QualityReport(orig_df, recon_df).analyze() as a whole: the report it
\* returns, or that it raised.
analyze(orig_df, recon_df) ==
    LET shape_check == analyze_shape_check(orig_df, recon_df, <<>>)
        column_check == analyze_column_check(orig_df, recon_df, shape_check.issues)
        loop == check_columns(orig_df, recon_df, 1,
                    [raised |-> FALSE, issues |-> column_check.issues,
                     warnings |-> <<>>, metrics |-> NoMetrics])
        with_similarity ==
            [key \in DOMAIN loop.metrics \cup {"overall_similarity"} |->
                IF key = "overall_similarity"
                THEN calculate_similarity(orig_df, recon_df)
                ELSE loop.metrics[key]]
    IN  IF shape_check.next = "build_report"
        THEN [raised |-> FALSE,
              report |-> build_report(shape_check.issues, <<>>, NoMetrics)]
        ELSE IF column_check.next = "build_report"
        THEN [raised |-> FALSE,
              report |-> build_report(column_check.issues, <<>>, NoMetrics)]
        ELSE IF loop.raised
        THEN [raised |-> TRUE, report |-> NoReport]
        ELSE [raised |-> FALSE,
              report |-> build_report(loop.issues, loop.warnings, with_similarity)]

\* analyze, 1: the shape check.
AnalyzeShapeCheck ==
    /\ qpc = "start"
    /\ issues' = analyze_shape_check(original, reconstructed, issues).issues
    /\ qpc' = analyze_shape_check(original, reconstructed, issues).next
    /\ UNCHANGED <<original, reconstructed, warnings, metrics, colIdx, report>>
    /\ UNCHANGED <<filterVars, compareVars, compressorVars, laterVars>>

\* analyze, 2: the column check, then the loop over self.original.columns.
AnalyzeColumnCheck ==
    /\ qpc = "column_check"
    /\ issues' = analyze_column_check(original, reconstructed, issues).issues
    /\ qpc' = analyze_column_check(original, reconstructed, issues).next
    /\ colIdx' = 1
    /\ UNCHANGED <<original, reconstructed, warnings, metrics, report>>
    /\ UNCHANGED <<filterVars, compareVars, compressorVars, laterVars>>

\* analyze, 3: _check_column for the next column of the original.
AnalyzeCheckColumn ==
    /\ qpc = "check_columns"
    /\ colIdx <= Len(original.cols)
    /\ LET col == original.cols[colIdx]
           res == check_column(col, original.data[col], reconstructed.data[col])
       IN  IF res.raised
           THEN /\ qpc' = "raised"
                /\ UNCHANGED <<issues, warnings, metrics, colIdx>>
           ELSE /\ issues' = issues \o res.issues
                /\ warnings' = warnings \o res.warnings
                /\ metrics' = [key \in DOMAIN metrics \cup {col} |->
                                  IF key = col THEN res.metrics ELSE metrics[key]]
                /\ colIdx' = colIdx + 1
                /\ qpc' = qpc
    /\ UNCHANGED <<original, reconstructed, report>>
    /\ UNCHANGED <<filterVars, compareVars, compressorVars, laterVars>>

\* analyze, 4: _calculate_similarity.
AnalyzeSimilarity ==
    /\ qpc = "check_columns"
    /\ colIdx > Len(original.cols)
    /\ metrics' = [key \in DOMAIN metrics \cup {"overall_similarity"} |->
                      IF key = "overall_similarity"
                      THEN calculate_similarity(original, reconstructed)
                      ELSE metrics[key]]
    /\ qpc' = "build_report"
    /\ UNCHANGED <<original, reconstructed, issues, warnings, colIdx, report>>
    /\ UNCHANGED <<filterVars, compareVars, compressorVars, laterVars>>

\* analyze, 5: return self._build_report().
AnalyzeBuildReport ==
    /\ qpc = "build_report"
    /\ report' = build_report(issues, warnings, metrics)
    /\ qpc' = "done"
    /\ UNCHANGED <<original, reconstructed, issues, warnings, metrics, colIdx>>
    /\ UNCHANGED <<filterVars, compareVars, compressorVars, laterVars>>

QualityNext ==
    \/ AnalyzeShapeCheck
    \/ AnalyzeColumnCheck
    \/ AnalyzeCheckColumn
    \/ AnalyzeSimilarity
    \/ AnalyzeBuildReport

\* ------------------------------------- compare_files and the quality command

\* A CSV file as pd.read_csv meets it: it raises on the file, or yields a table.
NoFrame == Frame(<<>>, 0, NoMetrics)
Unparsable == [parsable |-> FALSE, table |-> NoFrame]
Parsable(df) == [parsable |-> TRUE, table |-> df]

\* The files compared: each of them may be unparsable; a parsable
\* reconstruction is one of the reconstructions of the original table (any
\* table when the original is unparsable).
OriginalFiles == {Unparsable} \cup {Parsable(df) : df \in Originals}

ReconstructedFiles(file) ==
    {Unparsable}
        \cup (IF file.parsable
              THEN {Parsable(r) : r \in Reconstructions(file.table)}
              ELSE {Parsable(df) : df \in Originals})

\* compare_files, the report of its except branch.
comparison_failed_report ==
    [similarity_score |-> Rat(0, 1),
     issues |-> <<[severity |-> "CRITICAL", type |-> "comparison_failed",
                   column |-> "", detail |-> NoDetail]>>,
     warnings |-> <<>>,
     column_metrics |-> NoMetrics,
     has_critical_issues |-> TRUE,
     has_errors |-> FALSE,
     has_warnings |-> FALSE]

\* compare_files, its handler (except Exception: return the report above).
compare_on_error_reraise == Raise

compare_on_error == Return(comparison_failed_report)

\* The quality command: the exit status for the report of compare_files.
quality_exit_code_on_warnings(the_report) ==
    IF \/ the_report.has_critical_issues
       \/ the_report.has_errors
       \/ the_report.has_warnings
    THEN 1 ELSE 0

quality_exit_code(the_report) ==
    IF the_report.has_critical_issues \/ the_report.has_errors THEN 1 ELSE 0

CompareInit ==
    /\ originalFile \in OriginalFiles
    /\ reconstructedFile \in ReconstructedFiles(originalFile)
    /\ cmp = "read_original"
    /\ failed = "none"
    /\ result = NoReport
    /\ escaped = FALSE
    /\ exitCode = -1

\* compare_files, 1: df_original = pd.read_csv(original_path).
CompareReadOriginal ==
    /\ cmp = "read_original"
    /\ IF originalFile.parsable
       THEN /\ original' = originalFile.table
            /\ cmp' = "read_reconstructed"
            /\ UNCHANGED failed
       ELSE /\ cmp' = "except"
            /\ failed' = "read_original"
            /\ UNCHANGED original
    /\ UNCHANGED <<reconstructed, issues, warnings, metrics, qpc, colIdx, report>>
    /\ UNCHANGED <<originalFile, reconstructedFile, result, escaped, exitCode>>
    /\ UNCHANGED <<filterVars, compressorVars, laterVars>>

\* compare_files, 2: df_reconstructed = pd.read_csv(reconstructed_path), then
\* QualityReport(df_original, df_reconstructed) and print_report, which calls
\* analyze() as the new object has no metrics.
CompareReadReconstructed ==
    /\ cmp = "read_reconstructed"
    /\ IF reconstructedFile.parsable
       THEN /\ reconstructed' = reconstructedFile.table
            /\ issues' = <<>>
            /\ warnings' = <<>>
            /\ metrics' = NoMetrics
            /\ qpc' = "start"
            /\ cmp' = "print_report"
            /\ UNCHANGED failed
       ELSE /\ cmp' = "except"
            /\ failed' = "read_reconstructed"
            /\ UNCHANGED <<reconstructed, issues, warnings, metrics, qpc>>
    /\ UNCHANGED <<original, colIdx, report>>
    /\ UNCHANGED <<originalFile, reconstructedFile, result, escaped, exitCode>>
    /\ UNCHANGED <<filterVars, compressorVars, laterVars>>

\* compare_files, 3: analyze() raised inside print_report.
CompareAnalyzeRaised ==
    /\ cmp = "print_report"
    /\ qpc = "raised"
    /\ cmp' = "except"
    /\ failed' = "analyze"
    /\ UNCHANGED <<originalFile, reconstructedFile, result, escaped, exitCode>>
    /\ UNCHANGED <<filterVars, qualityVars, compressorVars, laterVars>>

\* compare_files, 3: a print of print_report raised (a stdout that cannot
\* encode the report's symbols, a closed pipe).
ComparePrintRaises ==
    /\ cmp = "print_report"
    /\ qpc = "done"
    /\ cmp' = "except"
    /\ failed' = "print"
    /\ UNCHANGED <<originalFile, reconstructedFile, result, escaped, exitCode>>
    /\ UNCHANGED <<filterVars, qualityVars, compressorVars, laterVars>>

\* compare_files, 4: return qr._build_report().
CompareReturn ==
    /\ cmp = "print_report"
    /\ qpc = "done"
    /\ result' = build_report(issues, warnings, metrics)
    /\ cmp' = "returned"
    /\ UNCHANGED <<originalFile, reconstructedFile, failed, escaped, exitCode>>
    /\ UNCHANGED <<filterVars, qualityVars, compressorVars, laterVars>>

\* compare_files, the except branch.
CompareExcept ==
    /\ cmp = "except"
    /\ result' = compare_on_error.value
    /\ escaped' = compare_on_error.raised
    /\ cmp' = "returned"
    /\ UNCHANGED <<originalFile, reconstructedFile, failed, exitCode>>
    /\ UNCHANGED <<filterVars, qualityVars, compressorVars, laterVars>>

\* The quality command after compare_files: sys.exit(1) on a report with
\* critical issues or errors and on an exception, a plain return otherwise.
QualityCommandExit ==
    /\ cmp = "returned"
    /\ exitCode' = IF escaped THEN 1 ELSE quality_exit_code(result)
    /\ cmp' = "exited"
    /\ UNCHANGED <<originalFile, reconstructedFile, failed, result, escaped>>
    /\ UNCHANGED <<filterVars, qualityVars, compressorVars, laterVars>>

CompareNext ==
    \/ CompareReadOriginal
    \/ CompareReadReconstructed
    \/ AnalyzeShapeCheck
    \/ AnalyzeColumnCheck
    \/ AnalyzeCheckColumn
    \/ AnalyzeSimilarity
    \/ AnalyzeBuildReport
    \/ CompareAnalyzeRaised
    \/ ComparePrintRaises
    \/ CompareReturn
    \/ CompareExcept
    \/ QualityCommandExit

\* compare_files not called.
CompareIdle ==
    /\ originalFile = Unparsable
    /\ reconstructedFile = Unparsable
    /\ cmp = "off"
    /\ failed = "none"
    /\ result = NoReport
    /\ escaped = FALSE
    /\ exitCode = -1

\* ------------------------------ SempressCompressor and its temporary files

\* A path is the sequence of its pieces. The directories tempfile may use:
\* the usual one, and one with '.smp' in its name.
TempDirs == {<<"/tmp/">>, <<"/srv/", ".smp", "/">>}

\* tempfile.NamedTemporaryFile(suffix=suffix, delete=False).name
NamedTemporaryFile(dir, suffix) == dir \o <<"tmpk3x9", suffix>>

\* smp_path.replace('.smp', '_recon.csv'): every occurrence is replaced.
recon_path(smp_path) ==
    [i \in 1..Len(smp_path) |->
        IF smp_path[i] = ".smp" THEN "_recon.csv" ELSE smp_path[i]]

\* The directory of the path exists, so that a file can be made there.
DirExists(path) == SubSeq(path, 1, Len(path) - 2) \in TempDirs

\* compress, the finally clause: Path(tmp_path).unlink(missing_ok=True).
compress_cleanup(the_files, paths) == the_files \ {paths[1]}

\* decompress, the finally clause: both paths are unlinked.
decompress_cleanup_input_only(the_files, paths) == the_files \ {paths[1]}

decompress_cleanup(the_files, paths) == the_files \ {paths[1], paths[2]}

CompressorInit ==
    /\ method \in {"compress", "decompress"}
    /\ payload \in Inputs
    /\ files = {}
    /\ created = <<>>
    /\ tpc = "start"
    /\ outcome = Return(<<>>)

\* compress, before the try: the temporary CSV is made and written.
CompressWriteTemp ==
    /\ tpc = "start"
    /\ method = "compress"
    /\ \E dir \in TempDirs :
          LET tmp_path == NamedTemporaryFile(dir, ".csv")
          IN  /\ files' = files \cup {tmp_path}
              /\ created' = <<tmp_path>>
    /\ tpc' = "encode"
    /\ UNCHANGED <<method, payload, outcome>>
    /\ UNCHANGED <<filterVars, qualityVars, compareVars, laterVars>>

\* compress, before the try: tmp.write raises (no space left); the file
\* stays, as it was made with delete=False.
CompressWriteFails ==
    /\ tpc = "start"
    /\ method = "compress"
    /\ \E dir \in TempDirs :
          LET tmp_path == NamedTemporaryFile(dir, ".csv")
          IN  /\ files' = files \cup {tmp_path}
              /\ created' = <<tmp_path>>
    /\ outcome' = Raise
    /\ tpc' = "failed_before_codec"
    /\ UNCHANGED <<method, payload>>
    /\ UNCHANGED <<filterVars, qualityVars, compareVars, laterVars>>

\* compress, the try: encode_csv returns the blob.
CompressEncodeReturns ==
    /\ tpc = "encode"
    /\ \E blob \in CodecOutputs : outcome' = Return(blob)
    /\ tpc' = "finally"
    /\ UNCHANGED <<method, payload, files, created>>
    /\ UNCHANGED <<filterVars, qualityVars, compareVars, laterVars>>

\* compress, the try: EncodeConfig or encode_csv raises.
CompressEncodeRaises ==
    /\ tpc = "encode"
    /\ outcome' = Raise
    /\ tpc' = "finally"
    /\ UNCHANGED <<method, payload, files, created>>
    /\ UNCHANGED <<filterVars, qualityVars, compareVars, laterVars>>

\* compress, the finally clause, then the return or the exception.
CompressFinally ==
    /\ tpc = "finally"
    /\ method = "compress"
    /\ files' = compress_cleanup(files, created)
    /\ tpc' = "done"
    /\ UNCHANGED <<method, payload, created, outcome>>
    /\ UNCHANGED <<filterVars, qualityVars, compareVars, laterVars>>

\* decompress, before the try: the temporary .smp is made and written and
\* the path of the reconstructed CSV is derived from its name.
DecompressWriteTemp ==
    /\ tpc = "start"
    /\ method = "decompress"
    /\ \E dir \in TempDirs :
          LET smp_path == NamedTemporaryFile(dir, ".smp")
              csv_path == recon_path(smp_path)
          IN  /\ files' = files \cup {smp_path}
              /\ created' = <<smp_path, csv_path>>
    /\ tpc' = "decode"
    /\ UNCHANGED <<method, payload, outcome>>
    /\ UNCHANGED <<filterVars, qualityVars, compareVars, laterVars>>

\* decompress, before the try: tmp_smp.write raises; the file stays.
DecompressWriteFails ==
    /\ tpc = "start"
    /\ method = "decompress"
    /\ \E dir \in TempDirs :
          LET smp_path == NamedTemporaryFile(dir, ".smp")
          IN  /\ files' = files \cup {smp_path}
              /\ created' = <<smp_path>>
    /\ outcome' = Raise
    /\ tpc' = "failed_before_codec"
    /\ UNCHANGED <<method, payload>>
    /\ UNCHANGED <<filterVars, qualityVars, compareVars, laterVars>>

\* decompress, the try: decode_to_csv returns; the CSV it wrote is read, or
\* open raises as decode_to_csv wrote none.
DecompressDecodeReturns ==
    /\ tpc = "decode"
    /\ \E wrote \in {w \in BOOLEAN : w => DirExists(created[2])} :
          IF wrote
          THEN /\ files' = files \cup {created[2]}
               /\ \E csv_data \in CodecOutputs : outcome' = Return(csv_data)
          ELSE /\ files' = files
               /\ outcome' = Raise
    /\ tpc' = "finally"
    /\ UNCHANGED <<method, payload, created>>
    /\ UNCHANGED <<filterVars, qualityVars, compareVars, laterVars>>

\* decompress, the try: decode_to_csv raises, with or without a CSV begun.
DecompressDecodeRaises ==
    /\ tpc = "decode"
    /\ \E wrote \in {w \in BOOLEAN : w => DirExists(created[2])} :
          files' = IF wrote THEN files \cup {created[2]} ELSE files
    /\ outcome' = Raise
    /\ tpc' = "finally"
    /\ UNCHANGED <<method, payload, created>>
    /\ UNCHANGED <<filterVars, qualityVars, compareVars, laterVars>>

\* decompress, the finally clause, then the return or the exception.
DecompressFinally ==
    /\ tpc = "finally"
    /\ method = "decompress"
    /\ files' = decompress_cleanup(files, created)
    /\ tpc' = "done"
    /\ UNCHANGED <<method, payload, created, outcome>>
    /\ UNCHANGED <<filterVars, qualityVars, compareVars, laterVars>>

CompressorNext ==
    \/ CompressWriteTemp
    \/ CompressWriteFails
    \/ CompressEncodeReturns
    \/ CompressEncodeRaises
    \/ CompressFinally
    \/ DecompressWriteTemp
    \/ DecompressWriteFails
    \/ DecompressDecodeReturns
    \/ DecompressDecodeRaises
    \/ DecompressFinally

\* No method of SempressCompressor called.
CompressorIdle ==
    /\ method = "none"
    /\ payload = <<>>
    /\ files = {}
    /\ created = <<>>
    /\ tpc = "off"
    /\ outcome = Return(<<>>)

\* ----------------------------------------------- the estimator, two calls

\* Longest input of the estimator, in runs.
MaxEstimateRuns == 1

\* Lengths on both sides of the three bucket boundaries.
EstimateLens ==
    {1, MiB - 1, MiB, 10 * MiB - 1, 10 * MiB, 100 * MiB - 1, 100 * MiB}

EstimateInputs ==
    {d \in SeqsUpTo([k : {"comma", "ascii"}, n : EstimateLens], MaxEstimateRuns) :
        Canonical(d)}

\* Two byte strings, estimate_compression_ratio not called yet.
EstimateInit ==
    /\ csvA \in EstimateInputs
    /\ csvB \in EstimateInputs
    /\ estimateA = -1
    /\ estimateB = -1

\* estimate_compression_ratio(first)
EstimateFirst ==
    /\ estimateA = -1
    /\ csvA \in EstimateInputs
    /\ estimateA' = estimate_compression_ratio(csvA)
    /\ UNCHANGED <<csvA, csvB, estimateB>>
    /\ UNCHANGED <<coreVars, roundTripVars, repeatVars, settingsVars,
                 multiVars, trackVars>>

\* estimate_compression_ratio(second)
EstimateSecond ==
    /\ estimateB = -1
    /\ csvB \in EstimateInputs
    /\ estimateB' = estimate_compression_ratio(csvB)
    /\ UNCHANGED <<csvA, csvB, estimateA>>
    /\ UNCHANGED <<coreVars, roundTripVars, repeatVars, settingsVars,
                 multiVars, trackVars>>

EstimateNext ==
    \/ EstimateFirst
    \/ EstimateSecond

\* No call of the estimator.
EstimateIdle ==
    /\ csvA = <<>>
    /\ csvB = <<>>
    /\ estimateA = -2
    /\ estimateB = -2

\* -------------------------------------- git add, then git checkout

\* git add: clean is about to run on the working-tree file.
RoundTripInit ==
    /\ stage = "add"
    /\ staged = <<>>
    /\ accepted = FALSE

\* clean returned compressed_data (filter.py:74), not csv_data and not b''.
CleanAccepted ==
    /\ op = "clean"
    /\ pc = "done"
    /\ codec.call = "encode"
    /\ codec.result = "return"
    /\ ByteLen(codec.data) > 0
    /\ decision = "compress"
    /\ clean_verify(config, input, codec.data) = Return(codec.data)

\* git stores what clean returned; git checkout hands it to smudge on stdin.
Checkout ==
    /\ stage = "add"
    /\ op = "clean"
    /\ pc = "done"
    /\ ~propagated
    /\ stage' = "checkout"
    /\ staged' = input
    /\ accepted' = CleanAccepted
    /\ input' = output
    /\ op' = "none"
    /\ pc' = "idle"
    /\ output' = <<>>
    /\ decision' = "none"
    /\ codec' = NoCall
    /\ UNCHANGED <<configFile, config, encodeCalls, decodeCalls, propagated>>
    /\ UNCHANGED <<qualityVars, compareVars, compressorVars,
                 estimateVars, repeatVars, settingsVars, multiVars, trackVars>>

RoundTripNext ==
    \/ stage = "add" /\ CleanGate
    \/ stage = "add" /\ CleanEncodeReturns
    \/ stage = "add" /\ CleanEncodeRaises
    \/ Checkout
    \/ stage = "checkout" /\ SmudgeSniff
    \/ stage = "checkout" /\ SmudgeDecodeReturns
    \/ stage = "checkout" /\ SmudgeDecodeRaises

\* No git add under way.
RoundTripIdle ==
    /\ stage = "off"
    /\ staged = <<>>
    /\ accepted = FALSE

\* ------------------------------- one QualityReport, called more than once

\* Most calls of analyze() and print_report() on one QualityReport.
MaxCalls == 2

\* qr = QualityReport(original, reconstructed); qr.analyze() is the first call.
RepeatInit ==
    /\ calls = 1
    /\ firstReport = NoReport

\* qr.analyze() once more: the method starts over on the object as it is,
\* self.issues, self.warnings and self.metrics included.
CallAnalyzeAgain ==
    /\ qpc = "done"
    /\ calls >= 1
    /\ calls < MaxCalls
    /\ calls' = calls + 1
    /\ firstReport' = IF calls = 1 THEN report ELSE firstReport
    /\ qpc' = "start"
    /\ colIdx' = 0
    /\ UNCHANGED <<original, reconstructed, issues, warnings, metrics, report>>
    /\ UNCHANGED <<filterVars, compareVars, compressorVars,
                 estimateVars, roundTripVars, settingsVars, multiVars, trackVars>>

\* qr.print_report(): report = self.analyze() if not self.metrics else
\* self._build_report().
CallPrintReport ==
    /\ qpc = "done"
    /\ calls >= 1
    /\ calls < MaxCalls
    /\ calls' = calls + 1
    /\ firstReport' = IF calls = 1 THEN report ELSE firstReport
    /\ IF metrics = NoMetrics
       THEN /\ qpc' = "start"
            /\ colIdx' = 0
            /\ report' = report
       ELSE /\ qpc' = "done"
            /\ colIdx' = colIdx
            /\ report' = build_report(issues, warnings, metrics)
    /\ UNCHANGED <<original, reconstructed, issues, warnings, metrics>>
    /\ UNCHANGED <<filterVars, compareVars, compressorVars,
                 estimateVars, roundTripVars, settingsVars, multiVars, trackVars>>

RepeatNext ==
    \/ QualityNext
    \/ CallAnalyzeAgain
    \/ CallPrintReport

\* No QualityReport called again.
RepeatIdle ==
    /\ calls = 0
    /\ firstReport = NoReport

\* ------------------------------------------- settings as shared objects

\* Most Config objects made in one process.
MaxLoads == 2

\* A dict value that is another dict: the place of that dict in the heap.
Ref(id) == [t |-> "ref", v |-> id]

\* dict.update with the old values kept.
dict_update_keeping_old(a, b) ==
    [key \in DOMAIN a \cup DOMAIN b |-> IF key \in DOMAIN a THEN a[key] ELSE b[key]]

\* a.update(b), as the dict a afterwards.
dict_update(a, b) ==
    [key \in DOMAIN a \cup DOMAIN b |-> IF key \in DOMAIN b THEN b[key] ELSE a[key]]

\* The module-level DEFAULT_CONFIG and its two nested dicts.
DefaultsId == 1
SectionOrder == <<"compression", "thresholds">>
DefaultHeap ==
    <<[compression |-> Ref(2), thresholds |-> Ref(3)],
      DEFAULT_CONFIG.compression,
      DEFAULT_CONFIG.thresholds>>

\* The values of the dict at id, its nested dicts followed (a section that
\* is no dict shows as NotAMapping).
Deep(h, id) ==
    [s \in DOMAIN h[id] |-> IF h[id][s].t = "ref" THEN h[h[id][s].v] ELSE NotAMapping]

\* DEFAULT_CONFIG.copy(): a new top-level dict with the values of the old
\* one; the nested dicts are not copied.
copy_defaults(h) == [heap |-> Append(h, h[DefaultsId]), config |-> Len(h) + 1]

\* yaml.safe_load(f): user_config, with each section that is a mapping a new
\* dict of its own.
RECURSIVE safe_load(_, _, _, _)
safe_load(h, doc, i, user_config) ==
    IF i > Len(SectionOrder) THEN [heap |-> h, user_config |-> user_config]
    ELSE LET s == SectionOrder[i]
         IN  IF s \notin DOMAIN doc THEN safe_load(h, doc, i + 1, user_config)
             ELSE IF IsMapping(doc[s])
             THEN safe_load(Append(h, doc[s]), doc, i + 1,
                            dict_update(user_config, [key \in {s} |-> Ref(Len(h) + 1)]))
             ELSE safe_load(h, doc, i + 1,
                            dict_update(user_config, [key \in {s} |-> NotANumber]))

\* The nested update applied to the section of DEFAULT_CONFIG.
nested_update_on_defaults(h, config_dict, user_config, s) ==
    LET target == h[DefaultsId][s]
    IN  IF config_dict[s].t # "ref" \/ user_config[s].t # "ref"
        THEN [raised |-> TRUE, heap |-> h]
        ELSE [raised |-> FALSE,
              heap |-> [h EXCEPT ![target.v] =
                            dict_update(h[target.v], h[user_config[s].v])]]

\* config[s].update(user_config[s]) of _load_config: AttributeError when
\* config[s] is no dict.
nested_update(h, config_dict, user_config, s) ==
    LET target == config_dict[s]
    IN  IF target.t # "ref" \/ user_config[s].t # "ref"
        THEN [raised |-> TRUE, heap |-> h]
        ELSE [raised |-> FALSE,
              heap |-> [h EXCEPT ![target.v] =
                            dict_update(h[target.v], h[user_config[s].v])]]

\* Config._load_config on the dicts of the process: the heap afterwards and
\* the place of the dict it returns.
load_config_on_heap(h, file) ==
    IF file.state \in {"missing", "unreadable", "unparsable", "scalar_document"}
    THEN copy_defaults(h)
    ELSE LET loaded == safe_load(h, file.doc, 1, EmptyDict)
             user_config == loaded.user_config
             config_dict == dict_update(loaded.heap[DefaultsId], user_config)
             is_dict == file.state = "document"
             first_update ==
                 IF is_dict /\ "compression" \in DOMAIN user_config
                 THEN nested_update(loaded.heap, config_dict, user_config, "compression")
                 ELSE [raised |-> FALSE, heap |-> loaded.heap]
             second_update ==
                 IF first_update.raised THEN first_update
                 ELSE IF is_dict /\ "thresholds" \in DOMAIN user_config
                 THEN nested_update(first_update.heap, config_dict, user_config,
                                    "thresholds")
                 ELSE first_update
         IN  IF second_update.raised THEN copy_defaults(second_update.heap)
             ELSE [heap |-> Append(second_update.heap, config_dict),
                   config |-> Len(second_update.heap) + 1]

\* SempressCompressor.__init__: the five attributes read from the
\* compression settings.
compressor_init(compression_config) ==
    [lock_cols |-> Get(compression_config, "lock_cols", Cols(0)),
     residual_cols |-> Get(compression_config, "residual_cols", Cols(0)),
     k |-> Get(compression_config, "k", Num(640)),
     uncertainty_threshold |-> Get(compression_config, "uncertainty_threshold", Num(2)),
     auto_lock |-> Get(compression_config, "auto_lock", Flag(TRUE))]

\* The compression sections of the .sempress.yml files considered.
UserCompressions ==
    {[key \in {"k"} |-> Num(1280)],
     [k |-> Num(320), uncertainty_threshold |-> Num(5), auto_lock |-> Flag(FALSE),
      lock_cols |-> Cols(1), residual_cols |-> Cols(2)]}

SettingsDocs ==
    {EmptyDoc}
    \cup {[compression |-> c] : c \in UserCompressions \cup {NotAMapping}}
    \cup {[thresholds |-> t] :
            t \in {[key \in {"min_size_mb"} |-> Num(0)],
                   [min_size_mb |-> Num(20), min_compression_ratio |-> Num(30)]}}
    \cup {[compression |-> c, thresholds |-> t] :
            c \in UserCompressions,
            t \in {[key \in {"min_compression_ratio"} |-> Num(30)], NotAMapping}}

SettingsFiles ==
    {[state |-> "missing", doc |-> EmptyDoc],
     [state |-> "unparsable", doc |-> EmptyDoc],
     [state |-> "pairs_document", doc |-> [thresholds |-> NotAMapping]]}
    \cup {[state |-> "document", doc |-> d] : d \in SettingsDocs}

\* The sizes and estimated ratios should_compress is asked about.
ProbeSizes == {MiB - 1, MiB, 2 * MiB}
ProbeRatios == {25, 40}

NoSettingsCall == [call |-> "none", config |-> 0]

\* The process has imported config.py; no Config made yet.
SettingsInit ==
    /\ heap = DefaultHeap
    /\ resolved = <<>>
    /\ lastCall = NoSettingsCall

\* Config(path): _load_config.
LoadConfig ==
    /\ Len(resolved) < MaxLoads
    /\ \E file \in SettingsFiles :
          LET loaded == load_config_on_heap(heap, file)
          IN  /\ heap' = loaded.heap
              /\ resolved' = Append(resolved,
                                [file |-> file, config |-> loaded.config,
                                 values |-> Deep(loaded.heap, loaded.config)])
    /\ lastCall' = NoSettingsCall
    /\ UNCHANGED <<coreVars, estimateVars, roundTripVars, repeatVars,
                 multiVars, trackVars>>

\* config.should_compress(file_size_bytes, estimated_ratio)
CallShouldCompress ==
    /\ \E i \in 1..Len(resolved), size \in ProbeSizes, ratio \in ProbeRatios :
          lastCall' = [call |-> "should_compress", config |-> i,
                       size |-> size, ratio |-> ratio,
                       result |-> should_compress(Deep(heap, resolved[i].config),
                                                  size, ratio)]
    /\ UNCHANGED <<heap, resolved>>
    /\ UNCHANGED <<coreVars, estimateVars, roundTripVars, repeatVars,
                 multiVars, trackVars>>

\* SempressFilter(config): SempressCompressor(config.get_compression_config())
ConstructFilter ==
    /\ \E i \in 1..Len(resolved) :
          lastCall' = [call |-> "filter_init", config |-> i,
                       result |-> compressor_init(
                          get_compression_config(Deep(heap, resolved[i].config)))]
    /\ UNCHANGED <<heap, resolved>>
    /\ UNCHANGED <<coreVars, estimateVars, roundTripVars, repeatVars,
                 multiVars, trackVars>>

\* filter.clean(...): the settings it reads are those should_compress reads
\* and get_thresholds().get('min_compression_ratio', 1.5).
CallClean ==
    /\ \E i \in 1..Len(resolved) :
          lastCall' = [call |-> "clean", config |-> i,
                       result |-> Get(get_thresholds(Deep(heap, resolved[i].config)),
                                      "min_compression_ratio", Num(15))]
    /\ UNCHANGED <<heap, resolved>>
    /\ UNCHANGED <<coreVars, estimateVars, roundTripVars, repeatVars,
                 multiVars, trackVars>>

\* filter.smudge(...): it reads no setting.
CallSmudge ==
    /\ \E i \in 1..Len(resolved) : lastCall' = [call |-> "smudge", config |-> i]
    /\ UNCHANGED <<heap, resolved>>
    /\ UNCHANGED <<coreVars, estimateVars, roundTripVars, repeatVars,
                 multiVars, trackVars>>

SettingsNext ==
    \/ LoadConfig
    \/ CallShouldCompress
    \/ ConstructFilter
    \/ CallClean
    \/ CallSmudge

\* config.py not imported.
SettingsIdle ==
    /\ heap = <<>>
    /\ resolved = <<>>
    /\ lastCall = NoSettingsCall

\* --------------------------------------- MultiFormatCompressor's files

\* Path(filename).suffix of the files considered.
Suffixes == {".csv", ".xlsx"}

\* Where tempfile makes its files; the second directory has '.csv' in its
\* name.
MultiTempDirs == {<<"/tmp/">>, <<"/data", ".csv", "/">>}

\* csv_path.replace('.csv', suffix): every occurrence is replaced.
converted_path(csv_path, the_suffix) ==
    [i \in 1..Len(csv_path) |-> IF csv_path[i] = ".csv" THEN the_suffix ELSE csv_path[i]]

\* The directory of the path exists, so that a file can be made there.
MultiDirExists(path) == SubSeq(path, 1, Len(path) - 2) \in MultiTempDirs

\* MultiFormatCompressor.decompress, the except clause with the output file
\* unlinked as well.
multi_decompress_on_error_unlinks_both(the_files, paths) ==
    the_files \ {paths[1], paths[2]}

\* MultiFormatCompressor.decompress, the except clause:
\* Path(csv_path).unlink(missing_ok=True).
multi_decompress_on_error(the_files, paths) == the_files \ {paths[1]}

\* MultiFormatCompressor.compress, the clean-up of the try and of the except
\* clause: both paths are unlinked.
multi_compress_cleanup(the_files, paths) == the_files \ {paths[1], paths[2]}

\* MultiFormatCompressor.decompress, the clean-up of the try.
multi_decompress_cleanup(the_files, paths) == the_files \ {paths[1], paths[2]}

MultiInit ==
    /\ method \in {"multi_compress", "multi_decompress"}
    /\ payload \in Inputs
    /\ fileSuffix \in Suffixes
    /\ files = {}
    /\ created = <<>>
    /\ tpc = "multi_start"
    /\ outcome = Return(<<>>)

\* compress, before the try: the temporary input file is made and written.
MultiCompressWriteTemp ==
    /\ tpc = "multi_start"
    /\ method = "multi_compress"
    /\ \E dir \in MultiTempDirs :
          LET input_path == dir \o <<"tmpk3x9", fileSuffix>>
              csv_path == input_path \o <<".csv">>
          IN  /\ files' = files \cup {input_path}
              /\ created' = <<input_path, csv_path>>
    /\ tpc' = "to_csv"
    /\ UNCHANGED <<method, payload, outcome, fileSuffix>>
    /\ UNCHANGED <<filterVars, qualityVars, compareVars>>
    /\ UNCHANGED <<estimateVars, roundTripVars, repeatVars,
                 settingsVars, trackVars>>

\* compress, before the try: tmp_input.write raises; the file stays.
MultiCompressWriteFails ==
    /\ tpc = "multi_start"
    /\ method = "multi_compress"
    /\ \E dir \in MultiTempDirs :
          LET input_path == dir \o <<"tmpk3x9", fileSuffix>>
          IN  /\ files' = files \cup {input_path}
              /\ created' = <<input_path>>
    /\ outcome' = Raise
    /\ tpc' = "failed_before_try"
    /\ UNCHANGED <<method, payload, fileSuffix>>
    /\ UNCHANGED <<filterVars, qualityVars, compareVars>>
    /\ UNCHANGED <<estimateVars, roundTripVars, repeatVars,
                 settingsVars, trackVars>>

\* compress, the try: to_csv wrote the CSV, which is read.
MultiToCsvReturns ==
    /\ tpc = "to_csv"
    /\ files' = files \cup {created[2]}
    /\ tpc' = "inner_compress"
    /\ UNCHANGED <<method, payload, created, outcome, fileSuffix>>
    /\ UNCHANGED <<filterVars, qualityVars, compareVars>>
    /\ UNCHANGED <<estimateVars, roundTripVars, repeatVars,
                 settingsVars, trackVars>>

\* compress, the try: to_csv raises, with or without a CSV begun.
MultiToCsvRaises ==
    /\ tpc = "to_csv"
    /\ \E wrote \in BOOLEAN :
          files' = IF wrote THEN files \cup {created[2]} ELSE files
    /\ outcome' = Raise
    /\ tpc' = "compress_except"
    /\ UNCHANGED <<method, payload, created, fileSuffix>>
    /\ UNCHANGED <<filterVars, qualityVars, compareVars>>
    /\ UNCHANGED <<estimateVars, roundTripVars, repeatVars,
                 settingsVars, trackVars>>

\* compress, the try: self.compressor.compress(csv_data) returns; its own
\* temporary file is gone by then.
MultiInnerCompressReturns ==
    /\ tpc = "inner_compress"
    /\ \E blob \in CodecOutputs : outcome' = Return(blob)
    /\ tpc' = "compress_cleanup"
    /\ UNCHANGED <<method, payload, files, created, fileSuffix>>
    /\ UNCHANGED <<filterVars, qualityVars, compareVars>>
    /\ UNCHANGED <<estimateVars, roundTripVars, repeatVars,
                 settingsVars, trackVars>>

\* compress, the try: self.compressor.compress(csv_data) raises.
MultiInnerCompressRaises ==
    /\ tpc = "inner_compress"
    /\ outcome' = Raise
    /\ tpc' = "compress_except"
    /\ UNCHANGED <<method, payload, files, created, fileSuffix>>
    /\ UNCHANGED <<filterVars, qualityVars, compareVars>>
    /\ UNCHANGED <<estimateVars, roundTripVars, repeatVars,
                 settingsVars, trackVars>>

\* compress, the end of the try (the two unlinks, then the return) or the
\* except clause (the two unlinks, then raise e).
MultiCompressCleanup ==
    /\ tpc \in {"compress_cleanup", "compress_except"}
    /\ files' = multi_compress_cleanup(files, created)
    /\ tpc' = "multi_done"
    /\ UNCHANGED <<method, payload, created, outcome, fileSuffix>>
    /\ UNCHANGED <<filterVars, qualityVars, compareVars>>
    /\ UNCHANGED <<estimateVars, roundTripVars, repeatVars,
                 settingsVars, trackVars>>

\* decompress: self.compressor.decompress(compressed_data) raises, before
\* any file of this method; its own temporary files are gone by then.
MultiInnerDecompressRaises ==
    /\ tpc = "multi_start"
    /\ method = "multi_decompress"
    /\ outcome' = Raise
    /\ tpc' = "multi_done"
    /\ UNCHANGED <<method, payload, files, created, fileSuffix>>
    /\ UNCHANGED <<filterVars, qualityVars, compareVars>>
    /\ UNCHANGED <<estimateVars, roundTripVars, repeatVars,
                 settingsVars, trackVars>>

\* decompress: the wrapped decompress returns, the temporary CSV is made and
\* written and the path of the converted file is derived from its name.
MultiDecompressWriteTemp ==
    /\ tpc = "multi_start"
    /\ method = "multi_decompress"
    /\ \E dir \in MultiTempDirs :
          LET csv_path == dir \o <<"tmpk3x9", ".csv">>
              output_path == converted_path(csv_path, fileSuffix)
          IN  /\ files' = files \cup {csv_path}
              /\ created' = <<csv_path, output_path>>
    /\ tpc' = "from_csv"
    /\ UNCHANGED <<method, payload, outcome, fileSuffix>>
    /\ UNCHANGED <<filterVars, qualityVars, compareVars>>
    /\ UNCHANGED <<estimateVars, roundTripVars, repeatVars,
                 settingsVars, trackVars>>

\* decompress, before the try: tmp_csv.write raises; the file stays.
MultiDecompressWriteFails ==
    /\ tpc = "multi_start"
    /\ method = "multi_decompress"
    /\ \E dir \in MultiTempDirs :
          LET csv_path == dir \o <<"tmpk3x9", ".csv">>
          IN  /\ files' = files \cup {csv_path}
              /\ created' = <<csv_path>>
    /\ outcome' = Raise
    /\ tpc' = "failed_before_try"
    /\ UNCHANGED <<method, payload, fileSuffix>>
    /\ UNCHANGED <<filterVars, qualityVars, compareVars>>
    /\ UNCHANGED <<estimateVars, roundTripVars, repeatVars,
                 settingsVars, trackVars>>

\* decompress, the try: from_csv wrote the converted file, which is read.
MultiFromCsvReturns ==
    /\ tpc = "from_csv"
    /\ MultiDirExists(created[2])
    /\ files' = files \cup {created[2]}
    /\ \E result_data \in CodecOutputs : outcome' = Return(result_data)
    /\ tpc' = "decompress_cleanup"
    /\ UNCHANGED <<method, payload, created, fileSuffix>>
    /\ UNCHANGED <<filterVars, qualityVars, compareVars>>
    /\ UNCHANGED <<estimateVars, roundTripVars, repeatVars,
                 settingsVars, trackVars>>

\* decompress, the try: from_csv raises, with or without a converted file
\* begun.
MultiFromCsvRaises ==
    /\ tpc = "from_csv"
    /\ \E wrote \in {w \in BOOLEAN : w => MultiDirExists(created[2])} :
          files' = IF wrote THEN files \cup {created[2]} ELSE files
    /\ outcome' = Raise
    /\ tpc' = "decompress_except"
    /\ UNCHANGED <<method, payload, created, fileSuffix>>
    /\ UNCHANGED <<filterVars, qualityVars, compareVars>>
    /\ UNCHANGED <<estimateVars, roundTripVars, repeatVars,
                 settingsVars, trackVars>>

\* decompress, the end of the try: the two unlinks, then the return.
MultiDecompressCleanup ==
    /\ tpc = "decompress_cleanup"
    /\ files' = multi_decompress_cleanup(files, created)
    /\ tpc' = "multi_done"
    /\ UNCHANGED <<method, payload, created, outcome, fileSuffix>>
    /\ UNCHANGED <<filterVars, qualityVars, compareVars>>
    /\ UNCHANGED <<estimateVars, roundTripVars, repeatVars,
                 settingsVars, trackVars>>

\* decompress, the except clause, then raise e.
MultiDecompressExcept ==
    /\ tpc = "decompress_except"
    /\ files' = multi_decompress_on_error(files, created)
    /\ tpc' = "multi_done"
    /\ UNCHANGED <<method, payload, created, outcome, fileSuffix>>
    /\ UNCHANGED <<filterVars, qualityVars, compareVars>>
    /\ UNCHANGED <<estimateVars, roundTripVars, repeatVars,
                 settingsVars, trackVars>>

MultiNext ==
    \/ MultiCompressWriteTemp
    \/ MultiCompressWriteFails
    \/ MultiToCsvReturns
    \/ MultiToCsvRaises
    \/ MultiInnerCompressReturns
    \/ MultiInnerCompressRaises
    \/ MultiCompressCleanup
    \/ MultiInnerDecompressRaises
    \/ MultiDecompressWriteTemp
    \/ MultiDecompressWriteFails
    \/ MultiFromCsvReturns
    \/ MultiFromCsvRaises
    \/ MultiDecompressCleanup
    \/ MultiDecompressExcept

\* No MultiFormatCompressor called.
MultiIdle == fileSuffix = ""

\* ------------------------------------------------- the track command

\* Most track commands run one after another.
MaxTracks == 2

\* The patterns considered; the first is part of the second.
Patterns == {"*.csv", "*.csv.bak", "*.parquet"}

\* a in b, for two patterns.
PatternIn(a, b) == a = b \/ (a = "*.csv" /\ b = "*.csv.bak")

\* The filter attributes considered: this filter, and plain Git LFS.
Filters == {"lfs-sempress", "lfs"}

\* A line "<pattern> filter=<filter> ..." of .gitattributes.
AttrLine(pattern, filter) == [pattern |-> pattern, filter |-> filter]

NoGitattributes == [exists |-> FALSE, lines |-> <<>>, newline |-> TRUE]

\* What is in the working directory when the command starts: no
\* .gitattributes, an empty one, or one line, with or without its newline.
GitattributesFiles ==
    {NoGitattributes, [exists |-> TRUE, lines |-> <<>>, newline |-> TRUE]}
    \cup {[exists |-> TRUE, lines |-> <<AttrLine(q, f)>>, newline |-> nl] :
            q \in Patterns, f \in Filters, nl \in BOOLEAN}

\* pattern in content and 'lfs-sempress' in content: two searches of the
\* whole text, each of which any line can satisfy.
already_tracked(file, pattern) ==
    /\ \E i \in 1..Len(file.lines) : PatternIn(pattern, file.lines[i].pattern)
    /\ \E i \in 1..Len(file.lines) : file.lines[i].filter = "lfs-sempress"

\* open(gitattributes, 'a') and f.write(line): the line goes after the last
\* byte of the file; after a last line without its newline it becomes the
\* rest of that line, whose pattern stays the first word.
append_line(file, pattern) ==
    IF file.newline \/ file.lines = <<>>
    THEN [exists |-> TRUE,
          lines |-> Append(file.lines, AttrLine(pattern, "lfs-sempress")),
          newline |-> TRUE]
    ELSE [exists |-> TRUE,
          lines |-> [file.lines EXCEPT ![Len(file.lines)] =
                        AttrLine(file.lines[Len(file.lines)].pattern, "lfs-sempress")],
          newline |-> TRUE]

TrackInit ==
    /\ gitattributes \in GitattributesFiles
    /\ trackCalls = <<>>
    /\ cliExit = -1

\* track(pattern) returns: the pattern counts as tracked already, or the
\* line is appended.
TrackReturns ==
    /\ Len(trackCalls) < MaxTracks
    /\ \E pattern \in Patterns :
          IF gitattributes.exists /\ already_tracked(gitattributes, pattern)
          THEN /\ gitattributes' = gitattributes
               /\ trackCalls' = Append(trackCalls,
                                    [pattern |-> pattern, path |-> "already_tracked",
                                     before |-> gitattributes])
          ELSE /\ gitattributes' = append_line(gitattributes, pattern)
               /\ trackCalls' = Append(trackCalls,
                                    [pattern |-> pattern, path |-> "appended",
                                     before |-> gitattributes])
    /\ cliExit' = 0
    /\ UNCHANGED <<coreVars, estimateVars, roundTripVars, repeatVars>>
    /\ UNCHANGED <<settingsVars, multiVars>>

\* track(pattern): read_text or open raises (the file cannot be read or
\* written); except Exception: sys.exit(1).
TrackFails ==
    /\ Len(trackCalls) < MaxTracks
    /\ \E pattern \in Patterns :
          trackCalls' = Append(trackCalls,
                               [pattern |-> pattern, path |-> "failed",
                                before |-> gitattributes])
    /\ cliExit' = 1
    /\ UNCHANGED gitattributes
    /\ UNCHANGED <<coreVars, estimateVars, roundTripVars, repeatVars>>
    /\ UNCHANGED <<settingsVars, multiVars>>

TrackNext ==
    \/ TrackReturns
    \/ TrackFails

\* No track command run.
TrackIdle ==
    /\ gitattributes = NoGitattributes
    /\ trackCalls = <<>>
    /\ cliExit = -1

\* The largest drift, in thousandths, of the last amount of the table below.
MaxDrift == 20

\* The table {id: [1, 2, 3], amount: [10.00, 20.00, 30.00 + drift / 1000]}.
DriftTable(drift) ==
    Frame(<<"id", "amount">>, 3,
          [id |-> <<NumCell(1000), NumCell(2000), NumCell(3000)>>,
           amount |-> <<NumCell(10000), NumCell(20000), NumCell(30000 + drift)>>])

\* QualityReport(original, reconstructed) for an original whose last amount
\* drifted from the reconstruction's 30.00.
DriftInit ==
    /\ original \in {DriftTable(drift) : drift \in 0..MaxDrift}
    /\ reconstructed = DriftTable(0)
    /\ issues = <<>>
    /\ warnings = <<>>
    /\ metrics = NoMetrics
    /\ qpc = "start"
    /\ colIdx = 0
    /\ report = NoReport

\* No comparison under way.
QualityIdle ==
    /\ original = Frame(<<>>, 0, NoMetrics)
    /\ reconstructed = Frame(<<>>, 0, NoMetrics)
    /\ issues = <<>>
    /\ warnings = <<>>
    /\ metrics = NoMetrics
    /\ qpc = "idle"
    /\ colIdx = 0
    /\ report = NoReport

\* No filter invoked.
FilterIdle ==
    /\ configFile = [state |-> "missing", doc |-> EmptyDoc]
    /\ config = DEFAULT_CONFIG
    /\ input = <<>>
    /\ op = "none"
    /\ pc = "off"
    /\ output = <<>>
    /\ decision = "none"
    /\ codec = NoCall
    /\ encodeCalls = 0
    /\ decodeCalls = 0
    /\ propagated = FALSE

\* ---------------------------------------------------------- specifications

vars == <<coreVars, laterVars>>

\* None of the later scenarios.
LaterIdle ==
    /\ EstimateIdle /\ RoundTripIdle /\ RepeatIdle /\ SettingsIdle /\ MultiIdle
    /\ TrackIdle

\* One invocation of the filter (clean or smudge) on one input.
Init == FilterInit /\ QualityIdle /\ CompareIdle /\ CompressorIdle /\ LaterIdle

Next == FilterNext

Spec == Init /\ [][Next]_vars

\* One QualityReport(original, reconstructed).analyze().
QInit == FilterIdle /\ QualityInit /\ CompareIdle /\ CompressorIdle /\ LaterIdle

QNext == QualityNext

SpecQuality == QInit /\ [][QNext]_vars

\* analyze() on the tables of DriftInit.
DInit == FilterIdle /\ DriftInit /\ CompareIdle /\ CompressorIdle /\ LaterIdle

SpecDrift == DInit /\ [][QNext]_vars

\* One run of the quality command: compare_files on two files, then the exit.
CInit == FilterIdle /\ QualityIdle /\ CompareInit /\ CompressorIdle /\ LaterIdle

CNext == CompareNext

SpecCompare == CInit /\ [][CNext]_vars

\* One call of SempressCompressor.compress or decompress.
TInit == FilterIdle /\ QualityIdle /\ CompareIdle /\ CompressorInit /\ LaterIdle

TNext == CompressorNext

SpecCompressor == TInit /\ [][TNext]_vars

\* Two calls of estimate_compression_ratio.
\* No filter, no report, no comparison, no compressor call.
CoreIdle == FilterIdle /\ QualityIdle /\ CompareIdle /\ CompressorIdle

EInit ==
    /\ CoreIdle /\ EstimateInit /\ RoundTripIdle /\ RepeatIdle /\ SettingsIdle
    /\ MultiIdle /\ TrackIdle

ENext == EstimateNext

SpecEstimate == EInit /\ [][ENext]_vars

\* clean on a working-tree file, then smudge on what clean returned.
RInit ==
    /\ FilterInit /\ QualityIdle /\ CompareIdle /\ CompressorIdle
    /\ EstimateIdle /\ RoundTripInit /\ RepeatIdle /\ SettingsIdle /\ MultiIdle
    /\ TrackIdle

RNext == RoundTripNext

SpecRoundTrip == RInit /\ [][RNext]_vars

\* analyze() on one QualityReport, then further analyze() and print_report()
\* calls on the same object.
PInit ==
    /\ FilterIdle /\ QualityInit /\ CompareIdle /\ CompressorIdle
    /\ EstimateIdle /\ RoundTripIdle /\ RepeatInit /\ SettingsIdle /\ MultiIdle
    /\ TrackIdle

PNext == RepeatNext

SpecRepeat == PInit /\ [][PNext]_vars

\* One process: Config objects made one after another, and calls that read
\* them.
SInit ==
    /\ CoreIdle /\ EstimateIdle /\ RoundTripIdle /\ RepeatIdle /\ SettingsInit
    /\ MultiIdle /\ TrackIdle

SNext == SettingsNext

SpecSettings == SInit /\ [][SNext]_vars

\* One call of MultiFormatCompressor.compress or decompress.
MInit ==
    /\ FilterIdle /\ QualityIdle /\ CompareIdle /\ MultiInit
    /\ EstimateIdle /\ RoundTripIdle /\ RepeatIdle /\ SettingsIdle /\ TrackIdle

MNext == MultiNext

SpecMultiFormat == MInit /\ [][MNext]_vars

\* track commands run one after another in one working directory.
KInit ==
    /\ CoreIdle /\ EstimateIdle /\ RoundTripIdle /\ RepeatIdle /\ SettingsIdle
    /\ MultiIdle /\ TrackInit

KNext == TrackNext

SpecTrack == KInit /\ [][KNext]_vars

\* ----------------------------------------------------- claims: the filter

\* The thresholds the resolved settings give (the defaults for a missing key).
MinSizeSetting ==
    IF IsMapping(config.thresholds)
    THEN Get(config.thresholds, "min_size_mb", Num(10))
    ELSE NotANumber
MinRatioSetting ==
    IF IsMapping(config.thresholds)
    THEN Get(config.thresholds, "min_compression_ratio", Num(15))
    ELSE NotANumber

\* The input passes the size and estimated-ratio pre-checks of the settings.
PassesPreChecks ==
    /\ input # <<>>
    /\ MinSizeSetting.t = "num"
    /\ MinRatioSetting.t = "num"
    /\ ByteLen(input) * 10 >= MinSizeSetting.v * MiB
    /\ estimate_compression_ratio(input) >= MinRatioSetting.v

CleanDone == op = "clean" /\ pc = "done"
SmudgeDone == op = "smudge" /\ pc = "done"

\* C1: for a non-empty input that passes the size and estimated-ratio
\* pre-checks, when the codec's encode raises, clean returns exactly the input
\* bytes and no exception leaves clean.
C1_EncodeFailureFallsBack ==
    (CleanDone /\ PassesPreChecks /\ codec.call = "encode" /\ codec.result = "raise")
        => (output = input /\ ~propagated)

C1_Witness ==
    /\ CleanDone
    /\ PassesPreChecks
    /\ codec.call = "encode"
    /\ codec.result = "raise"
    /\ encodeCalls = 1
    /\ output = input

\* C1 needs the pre-checks to lead to the codec at all.
C1_PreChecksReachCodec ==
    (op = "clean" /\ PassesPreChecks) => (pc = "encoding" \/ encodeCalls = 1)

\* C2: for a non-empty input clean returns the input bytes or an accepted
\* codec blob, and after an internal error (estimator, threshold check,
\* codec) it returns the input bytes, never an empty output.
C2_CleanKeepsTheBytes ==
    (CleanDone /\ input # <<>>) =>
        /\ \/ output = input
           \/ /\ codec.result = "return"
              /\ output = codec.data
              /\ ByteLen(codec.data) > 0
        /\ (decision = "error" \/ codec.result = "raise") => output = input
        /\ output # <<>>

C4_OutputMeetsRatio ==
    CleanDone =>
        /\ (codec.result = "return" /\ ByteLen(codec.data) > 0
            /\ MinRatioSetting.t = "num") =>
              /\ (output = codec.data) <=>
                    (ByteLen(input) * 10 >= MinRatioSetting.v * ByteLen(codec.data)
                     \/ codec.data = input)
              /\ (ByteLen(input) * 10 < MinRatioSetting.v * ByteLen(codec.data))
                    => output = input
        /\ (output # input) =>
              /\ MinRatioSetting.t = "num"
              /\ ByteLen(output) > 0
              /\ ByteLen(input) * 10 >= MinRatioSetting.v * ByteLen(output)

\* The part of C4 about the codec's blob alone.
C4_BlobAcceptedIffRatioMet ==
    (CleanDone /\ codec.result = "return" /\ ByteLen(codec.data) > 0) =>
        /\ MinRatioSetting.t = "num"
        /\ (output = codec.data) <=>
              (ByteLen(input) * 10 >= MinRatioSetting.v * ByteLen(codec.data)
               \/ codec.data = input)
        /\ (ByteLen(input) * 10 < MinRatioSetting.v * ByteLen(codec.data))
              => output = input

\* C5: an empty blob from encode is a codec failure: clean returns the input
\* bytes and no division by zero reaches the caller.
C5_EmptyBlobFallsBack ==
    (CleanDone /\ codec.call = "encode" /\ codec.result = "return"
     /\ ByteLen(codec.data) = 0)
        => (output = input /\ output # <<>> /\ ~propagated)

C5_Witness ==
    /\ CleanDone
    /\ codec.call = "encode"
    /\ codec.result = "return"
    /\ codec.data = <<>>
    /\ input # <<>>
    /\ output = input

\* The number of commas among the first m bytes of d, byte by byte.
CommasInFirst(d, m) ==
    Cardinality({i \in 1..Min(ByteLen(d), m) : ByteAt(d, i) = "comma"})

\* C6: for a non-empty input that smudge does not take for plain text, when
\* the codec's decode raises, smudge returns the input unchanged and no
\* exception leaves smudge.
C6_DecodeFailurePassesThrough ==
    (SmudgeDone /\ input # <<>> /\ CommasInFirst(input, 100) <= 5
     /\ codec.call = "decode" /\ codec.result = "raise")
        => (output = input /\ ~propagated)

C6_Witness ==
    /\ SmudgeDone
    /\ input # <<>>
    /\ CommasInFirst(input, 100) <= 5
    /\ codec.call = "decode"
    /\ codec.result = "raise"
    /\ decodeCalls = 1
    /\ output = input

\* C7: smudge takes its input for plain table text exactly when the first 100
\* bytes hold more than 5 commas; then it returns the input and never calls
\* decode. With 5 commas or fewer there, decode is attempted.
C7_SniffByCommaCount ==
    (op = "smudge" /\ input # <<>>) =>
        IF CommasInFirst(input, 100) > 5
        THEN /\ pc = "done"
             /\ decision = "plain"
             /\ output = input
             /\ decodeCalls = 0
             /\ codec = NoCall
        ELSE /\ decision = "decompress"
             /\ (pc = "decoding" /\ decodeCalls = 0) \/ (pc = "done" /\ decodeCalls = 1)

\* Five commas in the prefix, a sixth beyond it: decode is attempted.
C7_Witness ==
    /\ SmudgeDone
    /\ CommasInFirst(input, 100) = 5
    /\ CountKind(input, "comma") > 5
    /\ ByteLen(input) > 100
    /\ decodeCalls = 1

\* ---------------------------------------------- claims: the quality report

AnalyzeDone == qpc = "done"

\* C8: for every table T (zero rows, string and numeric columns, cells
\* possibly missing), QualityReport(T, T).analyze() returns a report with
\* similarity_score == 100, no Issue and no Warning.
C8_SelfComparisonIsPerfect ==
    (original = reconstructed) =>
        /\ qpc # "raised"
        /\ AnalyzeDone =>
              /\ IsHundred(report.similarity_score)
              /\ report.issues = <<>>
              /\ report.warnings = <<>>

\* The same for the tables with at least one row and no missing cell.
NoMissingCell(df) ==
    \A i \in 1..Len(df.cols) : \A r \in 1..df.rows : df.data[df.cols[i]][r].t # "nan"

C8_SelfComparisonOfFullTables ==
    (original = reconstructed /\ original.rows > 0 /\ NoMissingCell(original)) =>
        /\ qpc # "raised"
        /\ AnalyzeDone =>
              /\ IsHundred(report.similarity_score)
              /\ report.issues = <<>>
              /\ report.warnings = <<>>

\* C9: when the shapes differ, analyze() emits exactly one Issue, CRITICAL
\* and of type shape_mismatch, and returns at once: no column check and no
\* similarity computation run, the report has no column metrics and no
\* warnings.
C9_ShapeMismatchShortCircuits ==
    (qpc # "idle" /\ shape(original) # shape(reconstructed)) =>
        /\ qpc \in {"start", "build_report", "done"}
        /\ colIdx = 0
        /\ warnings = <<>>
        /\ DOMAIN metrics = {}
        /\ (qpc # "start") =>
              /\ Len(issues) = 1
              /\ issues[1].severity = "CRITICAL"
              /\ issues[1].type = "shape_mismatch"
        /\ AnalyzeDone =>
              /\ report.issues = issues
              /\ report.warnings = <<>>
              /\ DOMAIN report.column_metrics = {}
              /\ report.has_critical_issues

\* Original (r, c), reconstructed (r, c + 1), as in the spec's (10,3)/(10,4).
C9_Witness ==
    /\ AnalyzeDone
    /\ shape(original)[1] = shape(reconstructed)[1]
    /\ shape(original)[2] + 1 = shape(reconstructed)[2]
    /\ original.rows > 0
    /\ Len(report.issues) = 1
    /\ report.issues[1].type = "shape_mismatch"

\* C10: when the shapes are equal and the sets of column names differ,
\* analyze() emits exactly one CRITICAL column_mismatch Issue that lists the
\* missing names (original minus reconstructed) and the extra names
\* (reconstructed minus original), and returns without any per-column check
\* or similarity computation.
C10_ColumnMismatchShortCircuits ==
    (qpc \notin {"idle", "start"}
     /\ shape(original) = shape(reconstructed)
     /\ ColumnSet(original) # ColumnSet(reconstructed)) =>
        /\ qpc \in {"column_check", "build_report", "done"}
        /\ warnings = <<>>
        /\ DOMAIN metrics = {}
        /\ (qpc # "column_check") =>
              /\ Len(issues) = 1
              /\ issues[1].severity = "CRITICAL"
              /\ issues[1].type = "column_mismatch"
              /\ issues[1].detail.missing =
                    ColumnSet(original) \ ColumnSet(reconstructed)
              /\ issues[1].detail.extra =
                    ColumnSet(reconstructed) \ ColumnSet(original)
        /\ AnalyzeDone =>
              /\ report.issues = issues
              /\ report.warnings = <<>>
              /\ DOMAIN report.column_metrics = {}
              /\ report.has_critical_issues

C10_Witness ==
    /\ AnalyzeDone
    /\ shape(original) = shape(reconstructed)
    /\ original.rows > 0
    /\ Len(original.cols) > 1
    /\ ColumnSet(original) \ ColumnSet(reconstructed) = {"a"}
    /\ ColumnSet(reconstructed) \ ColumnSet(original) = {FreshName}
    /\ Len(report.issues) = 1
    /\ report.issues[1].type = "column_mismatch"

\* The findings analyze() has recorded for column col, by severity.
FindingsOf(list, col, severity) ==
    {i \in 1..Len(list) : list[i].column = col /\ list[i].severity = severity}

FindingsFor(col) ==
    {i \in 1..Len(issues) : issues[i].column = col}
        \cup {Len(issues) + i : i \in {j \in 1..Len(warnings) : warnings[j].column = col}}

\* The columns _check_column has handled as numeric ones.
CheckedNumeric ==
    {col \in DOMAIN metrics : col # "overall_similarity" /\ metrics[col].type = "numeric"}

\* a / b <= x, for a float x that is no NaN.
AtLeast(x, a, b) == ~x.nan /\ a * x.d <= x.n * b

\* C11: a numeric column whose values do not all match exactly gets its
\* finding from relative_error_pct alone: below 0.01 nothing is stored, in
\* [0.01, 0.1) one INFO Warning, in [0.1, 1.0) one WARNING Warning, from 1.0
\* on one ERROR Issue (0.1 itself is WARNING, 1.0 itself is ERROR); a column
\* with exact_match_pct == 100 gets nothing.
C11_TiersByRelativeError ==
    \A col \in CheckedNumeric :
        LET rel == metrics[col].relative_error
            n == Cardinality(FindingsFor(col))
            infos == Cardinality(FindingsOf(warnings, col, "INFO"))
            warns == Cardinality(FindingsOf(warnings, col, "WARNING"))
            errors == Cardinality(FindingsOf(issues, col, "ERROR"))
        IN  /\ IsHundred(metrics[col].exact_match_pct) => n = 0
            /\ (~IsHundred(metrics[col].exact_match_pct) /\ ~rel.nan) =>
                  /\ Lt(rel, 1, 100) => n = 0
                  /\ (AtLeast(rel, 1, 100) /\ Lt(rel, 1, 10)) => (n = 1 /\ infos = 1)
                  /\ (AtLeast(rel, 1, 10) /\ Lt(rel, 1, 1)) => (n = 1 /\ warns = 1)
                  /\ AtLeast(rel, 1, 1) => (n = 1 /\ errors = 1)

\* A column whose relative error is exactly 0.1 has its WARNING in the report.
C11_Witness ==
    /\ AnalyzeDone
    /\ \E col \in CheckedNumeric :
          /\ ~IsHundred(metrics[col].exact_match_pct)
          /\ AtLeast(metrics[col].relative_error, 1, 10)
          /\ ~Lt(metrics[col].relative_error, 1, 10)
          /\ metrics[col].relative_error.n * 10 = metrics[col].relative_error.d
          /\ Cardinality(FindingsOf(report.warnings, col, "WARNING")) = 1

\* Each tier of C11 is met by some column, the boundaries 0.01 and 1.0 too.
C11_TierBelowReached ==
    \E col \in CheckedNumeric :
        /\ ~IsHundred(metrics[col].exact_match_pct)
        /\ Lt(metrics[col].relative_error, 1, 100)

C11_TierInfoReached ==
    \E col \in CheckedNumeric :
        /\ metrics[col].relative_error.n * 100 = metrics[col].relative_error.d
        /\ Cardinality(FindingsOf(warnings, col, "INFO")) = 1

C11_TierErrorReached ==
    \E col \in CheckedNumeric :
        /\ metrics[col].relative_error.n = metrics[col].relative_error.d
        /\ ~metrics[col].relative_error.nan
        /\ Cardinality(FindingsOf(issues, col, "ERROR")) = 1

\* The columns _check_column has handled as string ones.
CheckedString ==
    {col \in DOMAIN metrics : col # "overall_similarity" /\ metrics[col].type = "string"}

\* The rows (from 1) of column col where orig == recon is false: the cells
\* differ, or one of them is missing.
MismatchRows(col) ==
    {i \in 1..original.rows :
        \/ original.data[col][i].t = "nan"
        \/ reconstructed.data[col][i].t = "nan"
        \/ original.data[col][i] # reconstructed.data[col][i]}

C12_HalfMatchReached ==
    \E i \in 1..Len(issues) :
        /\ issues[i].type = "string_mismatch"
        /\ issues[i].detail.mismatches = 1
        /\ issues[i].detail.match_pct.n = 50 * issues[i].detail.match_pct.d

\* The tables pass the shape check and the column check of analyze().
PassesChecks ==
    /\ qpc # "idle"
    /\ shape(original) = shape(reconstructed)
    /\ ColumnSet(original) = ColumnSet(reconstructed)

\* C13: for tables of equal shape and equal column-name sets analyze() never
\* raises, whatever the cells: no rows, missing cells, or a column that is
\* numeric in the original and not numeric in the reconstruction.
C13_AnalyzeNeverRaises == PassesChecks => qpc # "raised"

\* The part of C13 that holds: no rows and missing cells do not make
\* analyze() raise when no numeric column turned into a string column.
C13_RaisesOnlyOnStringForNumber ==
    (PassesChecks /\ qpc = "raised") =>
        \E col \in ColumnSet(original) :
            /\ ~IsObject(original.data[col])
            /\ IsObject(reconstructed.data[col])

\* 0 <= x <= 100, for a float that is no NaN.
InPercentRange(x) == ~x.nan /\ 0 <= x.n /\ x.n <= 100 * x.d

\* C14: for tables that pass the shape check and the column check, the
\* report's similarity_score is a number in [0, 100], never NaN, and it is
\* computed (stored under overall_similarity) also when there is no Issue
\* and no Warning.
C14_SimilarityInRange ==
    (PassesChecks /\ AnalyzeDone) =>
        /\ "overall_similarity" \in DOMAIN report.column_metrics
        /\ report.similarity_score = report.column_metrics["overall_similarity"]
        /\ InPercentRange(report.similarity_score)

\* The same for the tables with at least one row.
C14_SimilarityOfNonEmptyTables ==
    (PassesChecks /\ AnalyzeDone /\ original.rows > 0) =>
        /\ "overall_similarity" \in DOMAIN report.column_metrics
        /\ report.similarity_score = report.column_metrics["overall_similarity"]
        /\ InPercentRange(report.similarity_score)

\* original {id: [1, 2, 3], amount: [10.00, 20.00, 30.005]} against
\* reconstructed {id: [1, 2, 3], amount: [10.00, 20.00, 30.00]}, analyzed.
DriftScenarioDone ==
    /\ AnalyzeDone
    /\ original = DriftTable(5)
    /\ reconstructed = DriftTable(0)

\* C15, as stated: in that scenario id gets no finding, amount has
\* mae = 0.005 / 3 (5 / 3 thousandths), the report has no Issue and exactly
\* one Warning, of severity INFO and about amount, and similarity_score is
\* strictly below 100.
C15_OneInfoWarning ==
    DriftScenarioDone =>
        /\ FindingsFor("id") = {}
        /\ report.column_metrics["amount"].mae.n * 3
              = 5 * report.column_metrics["amount"].mae.d
        /\ report.issues = <<>>
        /\ Len(report.warnings) = 1
        /\ report.warnings[1].severity = "INFO"
        /\ report.warnings[1].column = "amount"
        /\ Lt(report.similarity_score, 100, 1)

\* C15, amended: in that scenario id gets no finding, amount has
\* mae = 0.005 / 3, the report has no Issue and no Warning (the relative
\* error 0.005 / 60.005 * 100 is below 0.01), and similarity_score is
\* strictly below 100.
C15_NoWarningBelowOneHundredth ==
    DriftScenarioDone =>
        /\ FindingsFor("id") = {}
        /\ report.column_metrics["amount"].mae.n * 3
              = 5 * report.column_metrics["amount"].mae.d
        /\ Lt(report.column_metrics["amount"].relative_error, 1, 100)
        /\ report.issues = <<>>
        /\ report.warnings = <<>>
        /\ ~report.has_warnings
        /\ Lt(report.similarity_score, 100, 1)

C15_Witness ==
    /\ DriftScenarioDone
    /\ report.column_metrics["amount"].relative_error = Rat(500, 60005)
    /\ ~IsHundred(report.column_metrics["amount"].exact_match_pct)
    /\ report.warnings = <<>>
    /\ report.similarity_score = Rat(500, 6)

\* A drift of 0.007 is the first to give the INFO Warning.
C15_InfoFromSevenThousandths ==
    (AnalyzeDone /\ reconstructed = DriftTable(0)) =>
        \A drift \in 1..MaxDrift :
            original = DriftTable(drift) =>
                IF drift < 7 THEN report.warnings = <<>>
                ELSE Len(report.warnings) = 1 /\ report.warnings[1].severity = "INFO"

\* The steps of analyze() add up to analyze as a whole.
AnalyzeStepsAgree ==
    /\ AnalyzeDone => analyze(original, reconstructed) = [raised |-> FALSE, report |-> report]
    /\ qpc = "raised" => analyze(original, reconstructed).raised

\* The orders the n columns of a table can be put in.
ColumnOrders(n) ==
    {p \in [1..n -> 1..n] : \A i, j \in 1..n : p[i] = p[j] => i = j}

\* df with its columns in the order p.
Permute(df, p) == Frame([i \in 1..Len(df.cols) |-> df.cols[p[i]]], df.rows, df.data)

\* analyze() on both tables with their columns in the order p.
AnalyzePermuted(p) == analyze(Permute(original, p), Permute(reconstructed, p))

Elements(list) == {list[i] : i \in 1..Len(list)}

\* C16, as stated: with the same permutation applied to the column order of
\* both tables analyze() returns an identical report: same similarity_score,
\* same issues list, same warnings list, same per-column metrics.
C16_PermutedColumnsSameReport ==
    (AnalyzeDone /\ Len(original.cols) = Len(reconstructed.cols)) =>
        \A p \in ColumnOrders(Len(original.cols)) :
            AnalyzePermuted(p) = [raised |-> FALSE, report |-> report]

\* C16, amended: with the same permutation applied to the column order of
\* both tables analyze() returns the same similarity_score, the same
\* per-column metrics, the same flags and the same Issues and Warnings, the
\* lists holding them in the order of the original's columns; and it raises
\* for the permuted tables exactly when it raises for the given ones.
C16_PermutedColumnsSameFindings ==
    (Len(original.cols) = Len(reconstructed.cols) /\ qpc \in {"raised", "done"}) =>
        \A p \in ColumnOrders(Len(original.cols)) :
            LET permuted == AnalyzePermuted(p)
                other == permuted.report
            IN  /\ qpc = "raised" => permuted.raised
                /\ AnalyzeDone =>
                      /\ ~permuted.raised
                      /\ other.similarity_score = report.similarity_score
                      /\ other.column_metrics = report.column_metrics
                      /\ other.has_critical_issues = report.has_critical_issues
                      /\ other.has_errors = report.has_errors
                      /\ other.has_warnings = report.has_warnings
                      /\ Len(other.issues) = Len(report.issues)
                      /\ Len(other.warnings) = Len(report.warnings)
                      /\ Elements(other.issues) = Elements(report.issues)
                      /\ Elements(other.warnings) = Elements(report.warnings)
                      /\ \A i \in 1..Len(report.issues) :
                            \A j \in 1..Len(report.issues) :
                                (i < j /\ report.issues[i].column # "") =>
                                    \E k, l \in 1..Len(original.cols) :
                                        /\ k < l
                                        /\ original.cols[k] = report.issues[i].column
                                        /\ original.cols[l] = report.issues[j].column

\* Two string columns, no cell missing, each with a changed first cell: the
\* report lists a's Issue before b's, the report for the swapped columns b's
\* before a's.
C16_Witness ==
    /\ AnalyzeDone
    /\ NoMissingCell(original)
    /\ NoMissingCell(reconstructed)
    /\ Len(original.cols) = 2
    /\ Len(report.issues) = 2
    /\ report.issues[1].column = "a"
    /\ report.issues[2].column = "b"
    /\ AnalyzePermuted(<<2, 1>>).report.issues = <<report.issues[2], report.issues[1]>>
    /\ AnalyzePermuted(<<2, 1>>).report.column_metrics = report.column_metrics

\* ------------------------------------------ claims: the quality command

\* C17: the quality command exits with status 1 exactly when the report
\* compare_files returned has has_critical_issues or has_errors, and with 0
\* otherwise; a report with Warnings only gives 0.
C17_ExitStatusFollowsReport ==
    (cmp = "exited" /\ ~escaped) =>
        /\ exitCode \in {0, 1}
        /\ exitCode = 1 <=> (result.has_critical_issues \/ result.has_errors)
        /\ (result.has_warnings /\ result.issues = <<>>) => exitCode = 0

\* A report with a Warning and no Issue: exit status 0.
C17_Witness ==
    /\ cmp = "exited"
    /\ ~escaped
    /\ result.has_warnings
    /\ Len(result.warnings) = 1
    /\ result.issues = <<>>
    /\ exitCode = 0

\* A report with an ERROR Issue: exit status 1.
C17_ErrorExitReached ==
    /\ cmp = "exited"
    /\ result.has_errors
    /\ ~result.has_critical_issues
    /\ exitCode = 1

\* compare_files is over.
CompareDone == cmp \in {"returned", "exited"}

\* An input of compare_files cannot be parsed, or a later step raised.
ComparisonFailed ==
    \/ ~originalFile.parsable
    \/ ~reconstructedFile.parsable
    \/ failed # "none"

\* C18: when an input of compare_files cannot be parsed or a step of the
\* comparison raises, compare_files raises nothing and returns a report with
\* similarity_score 0, exactly one Issue (CRITICAL, comparison_failed), no
\* warnings, no column metrics, has_critical_issues true and has_errors
\* false.
C18_FailureBecomesReport ==
    /\ (cmp # "off" /\ ComparisonFailed) =>
          cmp \in {"read_original", "read_reconstructed", "except", "returned", "exited"}
    /\ (CompareDone /\ ComparisonFailed) =>
          /\ ~escaped
          /\ IsZero(result.similarity_score)
          /\ Len(result.issues) = 1
          /\ result.issues[1].severity = "CRITICAL"
          /\ result.issues[1].type = "comparison_failed"
          /\ result.warnings = <<>>
          /\ DOMAIN result.column_metrics = {}
          /\ result.has_critical_issues
          /\ ~result.has_errors
          /\ ~result.has_warnings

\* analyze() raised on two parsed tables; compare_files returned the report.
C18_Witness ==
    /\ CompareDone
    /\ originalFile.parsable
    /\ reconstructedFile.parsable
    /\ failed = "analyze"
    /\ qpc = "raised"
    /\ result = comparison_failed_report

\* The reconstructed file could not be parsed.
C18_UnparsableReached ==
    /\ CompareDone
    /\ originalFile.parsable
    /\ ~reconstructedFile.parsable
    /\ failed = "read_reconstructed"
    /\ result = comparison_failed_report

\* --------------------------------------------- claims: the temporary files

\* compress or decompress returned or raised after the codec was invoked.
CompressorDone == tpc = "done"

\* C19: compress and decompress make their temporary files before they
\* invoke the codec, and on every exit after that, a return as well as an
\* exception of the codec, none of the temporary paths of the call (the
\* input file and, for decompress, the reconstructed CSV) exists any more.
C19_TempFilesRemoved ==
    /\ tpc \in {"encode", "decode"} => (created # <<>> /\ created[1] \in files)
    /\ CompressorDone =>
          /\ Len(created) = (IF method = "compress" THEN 1 ELSE 2)
          /\ \A i \in 1..Len(created) : created[i] \notin files
          /\ files = {}

\* decompress raised after the codec had begun the reconstructed CSV.
C19_Witness ==
    /\ CompressorDone
    /\ method = "decompress"
    /\ outcome.raised
    /\ created = <<<<"/tmp/", "tmpk3x9", ".smp">>, <<"/tmp/", "tmpk3x9", "_recon.csv">>>>
    /\ files = {}

\* Both temporary files of decompress exist when the finally clause starts.
C19_BothFilesBeforeCleanupReached ==
    /\ tpc = "finally"
    /\ method = "decompress"
    /\ created[1] \in files
    /\ created[2] \in files

\* compress returned the blob and its temporary CSV is gone.
C19_CompressReturnReached ==
    /\ CompressorDone
    /\ method = "compress"
    /\ ~outcome.raised
    /\ outcome.value # <<>>
    /\ files = {}

\* ---------------------------------------------------- claims: the settings

\* The file cannot be loaded: it is missing, unreadable or no valid YAML.
Unloadable(file) == file.state \in {"missing", "unreadable", "unparsable"}

\* The file is valid YAML with invalid content: a document that is no
\* mapping, a thresholds section that is no mapping, or a threshold whose
\* value is no number.
InvalidContent(file) ==
    \/ file.state \in {"scalar_document", "pairs_document"}
    \/ /\ file.state = "document"
       /\ "thresholds" \in DOMAIN file.doc
       /\ \/ ~IsMapping(file.doc["thresholds"])
          \/ \E key \in DOMAIN file.doc["thresholds"] :
                file.doc["thresholds"][key].t # "num"

\* C20: Config never fails to construct: for a config file that is missing,
\* unreadable, invalid YAML, or valid YAML with invalid content (a document
\* or a section that is no mapping, threshold values of a wrong type) the
\* resulting settings are the defaults, so that should_compress never
\* raises.
C20_InvalidFileGivesDefaults ==
    /\ (pc # "off" /\ (Unloadable(configFile) \/ InvalidContent(configFile)))
          => config = DEFAULT_CONFIG
    /\ op = "clean" => decision # "error"

\* The part of C20 that holds: a file that cannot be loaded, a document
\* that is a scalar and a thresholds section that is no mapping give the
\* defaults, and should_compress does not raise on them.
C20_UnloadableFileGivesDefaults ==
    (pc # "off"
     /\ \/ Unloadable(configFile)
        \/ configFile.state = "scalar_document"
        \/ /\ configFile.state = "document"
           /\ "thresholds" \in DOMAIN configFile.doc
           /\ ~IsMapping(configFile.doc["thresholds"])) =>
        /\ config = DEFAULT_CONFIG
        /\ op = "clean" => decision # "error"

\* should_compress raises exactly on the settings that are not the defaults'
\* kind: thresholds that are no mapping, or a threshold that is no number
\* where the check comes to it.
C20_RaisesOnIllTypedSettings ==
    (CleanDone /\ decision = "error") =>
        /\ InvalidContent(configFile)
        /\ config # DEFAULT_CONFIG
        /\ output = <<>>

\* -------------------------------------------------- claims: the estimator

EstimatesDone == estimateA >= 0 /\ estimateB >= 0

C21_SameLengthReached ==
    /\ EstimatesDone
    /\ csvA # csvB
    /\ ByteLen(csvA) = ByteLen(csvB)

\* All four values of the table are returned.
C21_TopBucketReached ==
    /\ EstimatesDone
    /\ estimateA = 25
    /\ estimateB = 70

\* ------------------------------------------- claims: the relative error

\* The sum of |original| and of |original - reconstructed| over a column.
SumAbsOriginal(col) ==
    SumOver([i \in 1..original.rows |-> Abs(original.data[col][i].v)], original.rows)

SumAbsError(col) ==
    SumOver([i \in 1..original.rows |->
                Abs(original.data[col][i].v - reconstructed.data[col][i].v)],
            original.rows)

NoNaNIn(cells) == \A i \in 1..Len(cells) : cells[i].t # "nan"

\* C22: for a numeric column (no value missing), relative_error is
\* mae / mean(|original|) * 100 when mean(|original|) > 0 and is 0 when
\* mean(|original|) is 0, whatever the reconstructed values; so an original
\* column of zeros gets no Issue and no Warning.
C22_RelativeErrorZeroAtZeroMean ==
    \A col \in CheckedNumeric :
        LET rel == metrics[col].relative_error
            rows == original.rows
        IN  (NoNaNIn(original.data[col]) /\ NoNaNIn(reconstructed.data[col])) =>
                /\ ~rel.nan
                /\ SumAbsOriginal(col) > 0 =>
                       \* rel = (sum_err / rows) / (sum_abs / rows) * 100,
                       \* as rel.n / rel.d = 100 * sum_err / sum_abs
                       LET g == GCD(rel.d, SumAbsOriginal(col))
                       IN  rel.n * (SumAbsOriginal(col) \div g)
                              = 100 * SumAbsError(col) * (rel.d \div g)
                /\ SumAbsOriginal(col) = 0 =>
                       /\ rel.n = 0
                       /\ FindingsFor(col) = {}

\* A column of zeros whose reconstruction differs in every row was checked:
\* its relative error is 0 and nothing is stored for it.
C22_Witness ==
    /\ AnalyzeDone
    /\ original.rows > 0
    /\ \E col \in CheckedNumeric :
          /\ \A i \in 1..original.rows :
                /\ original.data[col][i] = NumCell(0)
                /\ reconstructed.data[col][i].t = "num"
                /\ reconstructed.data[col][i].v # 0
          /\ IsZero(metrics[col].relative_error)
          /\ IsZero(metrics[col].exact_match_pct)
          /\ FindingsFor(col) = {}

\* A column with a positive mean and a reconstruction that differs was
\* checked.
C22_PositiveMeanReached ==
    /\ AnalyzeDone
    /\ \E col \in CheckedNumeric :
          /\ NoNaNIn(original.data[col])
          /\ NoNaNIn(reconstructed.data[col])
          /\ SumAbsOriginal(col) > 0
          /\ SumAbsError(col) > 0
          /\ ~IsZero(metrics[col].relative_error)

\* ------------------------------------------ claims: one encode per clean

\* C23: in one invocation of clean the codec's encode is called at most once,
\* and only for an input that is not empty, passed the size check and has an
\* estimated ratio >= min_compression_ratio; after a failed encode or a
\* rejected ratio no further encode call follows.
C23_EncodeAtMostOnce ==
    [][/\ encodeCalls' # encodeCalls =>
            /\ op = "clean"
            /\ encodeCalls = 0
            /\ encodeCalls' = 1
            /\ PassesPreChecks
       /\ (op = "clean" /\ codec.call = "encode") => encodeCalls' = encodeCalls
       /\ (op = "clean" /\ decision \in {"empty", "too_small", "ratio_low", "error"})
            => encodeCalls' = encodeCalls]_vars

\* Encode was called once and failed; clean is over.
C23_Witness ==
    /\ CleanDone
    /\ encodeCalls = 1
    /\ codec.result = "raise"

\* clean is over without a call of encode, the estimated ratio being too low.
C23_RatioRejectedReached ==
    /\ CleanDone
    /\ decision = "ratio_low"
    /\ encodeCalls = 0

\* clean is over after one call of encode whose blob was too large.
C23_BlobRejectedReached ==
    /\ CleanDone
    /\ encodeCalls = 1
    /\ codec.result = "return"
    /\ output = input

\* ------------------------------------------- claims: add, then checkout

CheckoutDone == stage = "checkout" /\ op = "smudge" /\ pc = "done"

\* C24: smudge on a blob that clean accepted calls the codec's decode and,
\* when decode succeeds, returns the decoded bytes; no accepted blob is taken
\* for plain text and passed through.
C24_AcceptedBlobIsDecoded ==
    (CheckoutDone /\ accepted) =>
        /\ decision # "plain"
        /\ decodeCalls = 1
        /\ codec.result = "return" => output = codec.data

\* An accepted blob with no more than 5 commas in its first 100 bytes was
\* decoded by smudge.
C24_DecodedReached ==
    /\ CheckoutDone
    /\ accepted
    /\ decodeCalls = 1
    /\ codec.result = "return"
    /\ output = codec.data

\* C25: when clean returned the bytes b it was given, smudge on that output
\* returns exactly b.
C25_PassthroughSurvivesCheckout ==
    (CheckoutDone /\ ~accepted /\ staged # <<>> /\ input = staged) => output = staged

\* Bytes that clean passed through and smudge took for plain text came back
\* unchanged.
C25_PlainTextReached ==
    /\ CheckoutDone
    /\ ~accepted
    /\ staged # <<>>
    /\ input = staged
    /\ decision = "plain"
    /\ output = staged

\* Bytes that clean passed through and the codec could not decode came back
\* unchanged.
C25_DecodeFailureReached ==
    /\ CheckoutDone
    /\ ~accepted
    /\ input = staged
    /\ codec.result = "raise"
    /\ output = staged

\* ------------------------------------- claims: one report, called again

\* A call after the first one has returned.
CalledAgain == calls >= 2 /\ qpc = "done"

\* C26: after any sequence of analyze() and print_report() calls on one
\* QualityReport the report returned equals the report of the first
\* analyze() call: no Issue and no Warning is stored twice.
C26_RepeatedCallsSameReport == CalledAgain => report = firstReport

\* print_report() after an analyze() that filled the metrics returns the
\* first report again.
C26_PrintAfterFullAnalyzeReached ==
    /\ CalledAgain
    /\ metrics # NoMetrics
    /\ Len(issues) > 0
    /\ report = firstReport

\* A shape mismatch is reported twice after a second call.
C26_DuplicateCriticalReached ==
    /\ CalledAgain
    /\ Len(firstReport.issues) = 1
    /\ Len(report.issues) = 2
    /\ report.issues[1] = report.issues[2]
    /\ report.issues[1].type = "shape_mismatch"

\* ---------------------------------------------- claims: the settings

\* No file, or a document whose sections are mappings.
WellFormed(file) ==
    \/ file.state = "missing"
    \/ /\ file.state = "document"
       /\ \A s \in DOMAIN file.doc : IsMapping(file.doc[s])

\* The value of a key after a key-by-key merge of the file over the defaults.
Merged(file, s, key) ==
    IF s \in DOMAIN file.doc /\ key \in DOMAIN file.doc[s]
    THEN file.doc[s][key]
    ELSE DEFAULT_CONFIG[s][key]

\* What the Gate answers when it uses the thresholds min_size and min_ratio.
GateAnswer(min_size, min_ratio, size, ratio) ==
    IF size * 10 < min_size.v * MiB THEN "too_small"
    ELSE IF ratio < min_ratio.v THEN "ratio_low"
    ELSE "ok"

\* The values in use for the i-th Config made.
ValuesOf(i) == Deep(heap, resolved[i].config)

\* C27: for a well-formed override (or none), every key of the compression
\* and thresholds sections that the file does not set has its default value
\* in what the compressor and the Gate use (k 64, uncertainty_threshold 0.2,
\* auto_lock true, empty lock and residual lists, min_size_mb 1,
\* min_compression_ratio 1.5), also when the file sets other keys of the
\* same section; every key the file sets has the file's value.
C27_MergedKeyByKey ==
    \A i \in 1..Len(resolved) :
        LET file == resolved[i].file
            attributes == compressor_init(get_compression_config(ValuesOf(i)))
        IN  /\ ValuesOf(i) = load_config(file)
            /\ WellFormed(file) =>
                  /\ \A key \in DOMAIN DEFAULT_CONFIG.compression :
                        attributes[key] = Merged(file, "compression", key)
                  /\ \A size \in ProbeSizes, ratio \in ProbeRatios :
                        should_compress(ValuesOf(i), size, ratio)
                          = GateAnswer(Merged(file, "thresholds", "min_size_mb"),
                                       Merged(file, "thresholds", "min_compression_ratio"),
                                       size, ratio)
                  /\ (lastCall.call = "filter_init" /\ lastCall.config = i) =>
                        \A key \in DOMAIN DEFAULT_CONFIG.compression :
                            lastCall.result[key] = Merged(file, "compression", key)
                  /\ (lastCall.call = "should_compress" /\ lastCall.config = i) =>
                        lastCall.result
                          = GateAnswer(Merged(file, "thresholds", "min_size_mb"),
                                       Merged(file, "thresholds", "min_compression_ratio"),
                                       lastCall.size, lastCall.ratio)
                  /\ (lastCall.call = "clean" /\ lastCall.config = i) =>
                        lastCall.result
                          = Merged(file, "thresholds", "min_compression_ratio")

\* A file that sets k alone and min_compression_ratio alone: the compressor
\* was made with the file's k and the default of the other four keys.
C27_Witness ==
    /\ lastCall.call = "filter_init"
    /\ LET file == resolved[lastCall.config].file
       IN  /\ file.state = "document"
           /\ DOMAIN file.doc = Sections
           /\ DOMAIN file.doc["compression"] = {"k"}
           /\ DOMAIN file.doc["thresholds"] = {"min_compression_ratio"}
    /\ lastCall.result.k = Num(1280)
    /\ lastCall.result.uncertainty_threshold = Num(2)
    /\ lastCall.result.auto_lock = Flag(TRUE)
    /\ lastCall.result.lock_cols = Cols(0)
    /\ lastCall.result.residual_cols = Cols(0)

\* A file that sets min_size_mb alone to 0: the Gate lets a file below 1 MiB
\* pass the size check and applies the default ratio 1.5.
C27_PartialThresholdsReached ==
    /\ lastCall.call = "should_compress"
    /\ LET file == resolved[lastCall.config].file
       IN  /\ file.state = "document"
           /\ DOMAIN file.doc = {"thresholds"}
           /\ DOMAIN file.doc["thresholds"] = {"min_size_mb"}
    /\ lastCall.size < MiB
    /\ lastCall.result = "ok"

\* The values a Config had when it was made, and those DEFAULT_CONFIG had at
\* import.
Unchanged(i) == ValuesOf(i) = resolved[i].values

\* C28: no sequence of Config loads, should_compress calls, filter
\* constructions, clean calls and smudge calls changes the values of a
\* Config made before or of DEFAULT_CONFIG, nested mappings included.
C28_SettingsReadOnly ==
    /\ heap # <<>> => Deep(heap, DefaultsId) = DEFAULT_CONFIG
    /\ \A i \in 1..Len(resolved) : Unchanged(i)

\* A Config that shares its nested dicts with DEFAULT_CONFIG, then a Config
\* loaded from a file that sets keys of both sections, then a call.
C28_Witness ==
    /\ Len(resolved) = 2
    /\ heap[resolved[1].config] = heap[DefaultsId]
    /\ resolved[2].file.state = "document"
    /\ DOMAIN resolved[2].file.doc = Sections
    /\ \A s \in Sections : IsMapping(resolved[2].file.doc[s])
    /\ lastCall.call = "clean"
    /\ Deep(heap, DefaultsId) = DEFAULT_CONFIG
    /\ Unchanged(1)

\* ------------------------------ claims: MultiFormatCompressor's files

MultiDone == tpc = "multi_done"

\* C29: MultiFormatCompressor.compress and decompress leave no temporary
\* file behind when they return and when the format conversion or the
\* wrapped compressor fails: the temporary input file, the intermediate CSV
\* and the converted output file are all removed.
C29_NoTempFileLeft == MultiDone => files = {}

\* compress leaves nothing, on its return and on a failure of to_csv or of
\* the wrapped compressor.
C29_CompressLeavesNothing ==
    (MultiDone /\ method = "multi_compress") => files = {}

\* decompress raised after from_csv had begun the converted file, which is
\* still there.
C29_OutputLeftReached ==
    /\ MultiDone
    /\ method = "multi_decompress"
    /\ outcome.raised
    /\ Len(created) = 2
    /\ files = {created[2]}
    /\ created[1] # created[2]

\* ------------------------------------------- claims: the track command

\* The lines of the file that assign filter=lfs-sempress to the pattern.
LinesFor(file, pattern) ==
    {i \in 1..Len(file.lines) :
        file.lines[i].pattern = pattern /\ file.lines[i].filter = "lfs-sempress"}

\* C30: after track has returned successfully for a pattern, .gitattributes
\* has a line that assigns filter=lfs-sempress to that pattern; the 'already
\* tracked' path is taken only when such a line was there; and tracking one
\* pattern twice leaves exactly one such line.
C30_TrackedPatternHasLine ==
    /\ (trackCalls # <<>> /\ cliExit = 0) =>
          LET last == trackCalls[Len(trackCalls)]
          IN  /\ LinesFor(gitattributes, last.pattern) # {}
              /\ last.path = "already_tracked" =>
                    LinesFor(last.before, last.pattern) # {}
    /\ (/\ Len(trackCalls) = 2
        /\ trackCalls[1].pattern = trackCalls[2].pattern
        /\ trackCalls[1].path # "failed"
        /\ trackCalls[2].path # "failed") =>
          Cardinality(LinesFor(gitattributes, trackCalls[2].pattern)) = 1

\* Without a .gitattributes, or with one that ends in a newline and holds
\* no pattern of which the tracked one is a part, the claim's case happens:
\* the line is appended once and the second track finds it.
C30_TwiceOneLineReached ==
    /\ Len(trackCalls) = 2
    /\ trackCalls[1].pattern = trackCalls[2].pattern
    /\ trackCalls[1].path = "appended"
    /\ trackCalls[2].path = "already_tracked"
    /\ Cardinality(LinesFor(gitattributes, trackCalls[2].pattern)) = 1

\* '*.csv' was reported as tracked already although only '*.csv.bak' has
\* the filter.
C30_SubstringReached ==
    /\ Len(trackCalls) = 1
    /\ cliExit = 0
    /\ trackCalls[1].pattern = "*.csv"
    /\ trackCalls[1].path = "already_tracked"
    /\ LinesFor(gitattributes, "*.csv") = {}

====
